---- MODULE Spec2Model ----
(***************************************************************************)
(* A model of the stock_check backend: the /api/agent analysis pipeline    *)
(* (routers/agent.py), the scheduler-driven pipeline (scheduler/jobs.py),  *)
(* and the services they sequence (holdings fetcher, performance analyzer, *)
(* earnings and news collectors with their TTL caches, LLM agent).         *)
(*                                                                         *)
(* Python values are encoded as follows.  None is the empty tuple and an   *)
(* Optional scalar x is the one-element tuple <<x>>; Optional records are  *)
(* the record itself or None.  Lists are sequences, dicts with a fixed key *)
(* set are records, the TTL caches are functions from the keys present.    *)
(* Times are whole seconds.                                                *)
(***************************************************************************)
EXTENDS Integers, Sequences, FiniteSets, Bags, TLC

(***************************************************************************)
(* Bounds of the model.                                                    *)
(***************************************************************************)
\* how many executions of analyze_portfolio may be in flight at once
NumRequests == 2
\* how many executions of AnalysisScheduler._run_analysis may be in flight at once
NumSchedRuns == 1
\* the collectors are called at instants this many seconds apart
TickSeconds == 1200

(***************************************************************************)
(* Python helpers.                                                         *)
(***************************************************************************)
None == <<>>
Some(v) == <<v>>
Val(x) == x[1]

\* truthiness of an Optional number: None and 0 are falsy
Truthy(x) == x # None /\ Val(x) # 0

\* Python's  a or b  on Optional numbers
PyOr(a, b) == IF Truthy(a) THEN a ELSE b

\* Python's  a or b  on strings
StrOr(a, b) == IF a # "" THEN a ELSE b

Abs(n) == IF n < 0 THEN -n ELSE n

RECURSIVE Flatten(_)
Flatten(ss) == IF ss = <<>> THEN <<>> ELSE Head(ss) \o Flatten(Tail(ss))

\* list.sort(key=...) and sorted(): a stable sort of <<key, item>> pairs by
\* ascending integer key; an element goes after every element whose key is
\* not greater than its own.
RECURSIVE InsertAsc(_, _)
InsertAsc(x, s) ==
    IF s = <<>> THEN <<x>>
    ELSE IF x[1] < Head(s)[1] THEN <<x>> \o s
    ELSE <<Head(s)>> \o InsertAsc(x, Tail(s))

RECURSIVE SortAsc(_)
SortAsc(s) ==
    IF s = <<>> THEN <<>>
    ELSE InsertAsc(s[Len(s)], SortAsc(SubSeq(s, 1, Len(s) - 1)))

\* a sort that puts the least key first where the greatest is asked for
SortLeastFirst(s) == SortAsc(s)

\* list.sort(key=..., reverse=True): descending, and still stable (equal keys
\* keep the order of the input).
RECURSIVE InsertDesc(_, _)
InsertDesc(x, s) ==
    IF s = <<>> THEN <<x>>
    ELSE IF x[1] > Head(s)[1] THEN <<x>> \o s
    ELSE <<Head(s)>> \o InsertDesc(x, Tail(s))

RECURSIVE SortDesc(_)
SortDesc(s) ==
    IF s = <<>> THEN <<>>
    ELSE InsertDesc(s[Len(s)], SortDesc(SubSeq(s, 1, Len(s) - 1)))

\* the items of a sequence of <<key, item>> pairs
Items(pairs) == [i \in 1..Len(pairs) |-> pairs[i][2]]

\* str.upper on the texts of the model
upper(text) ==
    CASE text = "aapl" -> "AAPL"
      [] text = "msft" -> "MSFT"
      [] text = "Tsla" -> "TSLA"
      [] OTHER -> text

\* str.join
RECURSIVE Join(_, _)
Join(sep, s) ==
    IF s = <<>> THEN ""
    ELSE IF Len(s) = 1 THEN s[1]
    ELSE s[1] \o sep \o Join(sep, Tail(s))

(***************************************************************************)
(* Ticker symbols.  Python compares str by code point; on the symbols of   *)
(* the model that order is the order of SymbolOrder.                       *)
(***************************************************************************)
SymbolOrder == <<"AAPL", "GOOGL", "MSFT", "NVDA", "TSLA">>
Symbols == {SymbolOrder[i] : i \in 1..Len(SymbolOrder)}
SymbolRank(s) == CHOOSE i \in 1..Len(SymbolOrder) : SymbolOrder[i] = s

\* sorted(symbols)
sorted(symbols) ==
    Items(SortAsc([i \in 1..Len(symbols) |-> <<SymbolRank(symbols[i]), symbols[i]>>]))

(***************************************************************************)
(* Settings (config.py).  Loaded once per process (lru_cache).             *)
(***************************************************************************)
fluctuation_threshold == 5
earnings_cache_hours == 4
news_cache_minutes == 30
llm_model == "claude-3-sonnet-20240229"
scheduler_cron == <<"0", "9,16", "*", "*", "1-5">>

\* Settings with the defaults and the given API key of the default provider
Settings(anthropic_api_key) ==
    [llm_provider |-> "anthropic", anthropic_api_key |-> anthropic_api_key,
     openai_api_key |-> "", local_llm_url |-> "http://localhost:11434",
     scheduler_enabled |-> TRUE]

(***************************************************************************)
(* models/holdings.py, models/analysis.py, models/agent.py                 *)
(***************************************************************************)
Holding(symbol, name, shares, average_cost) ==
    [symbol |-> symbol, name |-> name, shares |-> shares,
     average_cost |-> average_cost, current_price |-> None,
     market_value |-> None, sector |-> None]

HoldingsResponse(holdings, total_value, fetched_at, source) ==
    [holdings |-> holdings, total_value |-> total_value,
     fetched_at |-> fetched_at, source |-> source]

AnalyzeRequest(force_refresh, include_news, include_earnings) ==
    [force_refresh |-> force_refresh, include_news |-> include_news,
     include_earnings |-> include_earnings]

\* The request bodies of the model: the default, a forced refresh, one that
\* asks for earnings without news and one that asks for news without
\* earnings.
AnalyzeRequests ==
    { AnalyzeRequest(FALSE, TRUE, TRUE), AnalyzeRequest(TRUE, TRUE, TRUE),
      AnalyzeRequest(FALSE, FALSE, TRUE), AnalyzeRequest(FALSE, TRUE, FALSE) }

(***************************************************************************)
(* services/holdings_fetcher.py                                            *)
(***************************************************************************)
\* HoldingsFetcher.get_mock_holdings
get_mock_holdings(utcnow) ==
    HoldingsResponse(
        << Holding("AAPL", "Apple Inc.", 100, Some(150)),
           Holding("MSFT", "Microsoft Corporation", 50, Some(350)),
           Holding("GOOGL", "Alphabet Inc.", 25, Some(140)),
           Holding("TSLA", "Tesla Inc.", 30, Some(200)),
           Holding("NVDA", "NVIDIA Corporation", 40, Some(500)) >>,
        None, utcnow, "mock")

\* An exception: its class and str(e).
Exc(type, msg) == [type |-> type, msg |-> msg]

\* The classes derived from httpx.HTTPError among the exceptions of the model:
\* transport errors (ConnectError, ReadTimeout) and HTTPStatusError, which
\* response.raise_for_status() raises for a non-2xx status.
HTTPErrorTypes == {"ConnectError", "ReadTimeout", "HTTPStatusError"}
IsHTTPError(e) == e.type \in HTTPErrorTypes

\* What a call does for its caller: return a value or raise an exception.
Return(value) == [raised |-> None, value |-> value]
Raise(type, msg) == [raised |-> Exc(type, msg), value |-> None]

\* The values response.json() yields: null, strings, numbers, lists, and
\* dicts as functions from the keys present.
JNull == [type |-> "null"]
JStr(text) == [type |-> "str", value |-> text]
JNum(n) == [type |-> "num", value |-> n]
JList(items) == [type |-> "list", value |-> items]
JDict(fields) == [type |-> "dict", value |-> fields]

\* the truth of a value in `or`, `if` and `not`
JTruthy(v) ==
    CASE v.type = "null" -> FALSE
      [] v.type = "str" -> v.value # ""
      [] v.type = "num" -> v.value # 0
      [] v.type = "list" -> v.value # <<>>
      [] v.type = "dict" -> DOMAIN v.value # {}

\* item.get(key)
dict_get(item, key) == IF key \in DOMAIN item.value THEN item.value[key] ELSE JNull

gets(item, keys) == [i \in 1..Len(keys) |-> dict_get(item, keys[i])]

\* a or b or ... : the first truthy operand, the last one if none is
RECURSIVE or_chain(_)
or_chain(values) ==
    IF Len(values) = 1 THEN values[1]
    ELSE IF JTruthy(Head(values)) THEN Head(values)
    ELSE or_chain(Tail(values))

\* the texts of the model that float() reads as a number
NumericTexts == ("10" :> 10) @@ ("7" :> 7)

\* float(v)
float(v) ==
    CASE v.type = "num" -> Return(v)
      [] v.type = "str" ->
           IF v.value \in DOMAIN NumericTexts THEN Return(JNum(NumericTexts[v.value]))
           ELSE Raise("ValueError", "could not convert string to float: '" \o v.value \o "'")
      [] OTHER -> Raise("TypeError", "float() argument must be a string or a real number")

\* if x: x = float(x)
float_if_truthy(v) == IF JTruthy(v) THEN float(v) ELSE Return(v)

\* pydantic validation of the fields of Holding
validate_str(v) ==
    IF v.type = "str" THEN Return(v.value)
    ELSE Raise("ValidationError", "1 validation error for Holding")

validate_optional_str(v) ==
    IF v.type = "null" THEN Return(None)
    ELSE IF v.type = "str" THEN Return(Some(v.value))
    ELSE Raise("ValidationError", "1 validation error for Holding")

validate_optional_float(v) ==
    IF v.type = "null" THEN Return(None)
    ELSE IF v.type = "num" THEN Return(Some(v.value))
    ELSE Raise("ValidationError", "1 validation error for Holding")

\* the symbol candidates tried in a different order
symbol_of_ticker_first(item) ==
    or_chain(gets(item, << "ticker", "symbol", "Ticker", "Symbol" >>))

\* item.get("symbol") or item.get("ticker") or item.get("Symbol") or item.get("Ticker")
symbol_of(item) ==
    or_chain(gets(item, << "symbol", "ticker", "Symbol", "Ticker" >>))

\* HoldingsFetcher._parse_single_holding: returns a Holding or None, or
\* raises what float(), symbol.upper() or Holding(...) raises
parse_single_holding(item) ==
    IF item.type # "dict" THEN Return(None)
    ELSE IF ~JTruthy(symbol_of(item)) THEN Return(None)
    ELSE
      LET symbol == symbol_of(item)
          name == or_chain(gets(item, << "name", "company", "Name", "companyName" >>)
                              \o << JStr("") >>)
          shares == float(or_chain(gets(item, << "shares", "quantity", "open_quantity",
                                                "Shares", "Quantity" >>) \o << JNum(0) >>))
          average_cost == float_if_truthy(or_chain(gets(item,
                              << "average_cost", "averageCost", "average_entry_price",
                                 "cost_basis" >>)))
          current_price == float_if_truthy(or_chain(gets(item,
                              << "current_price", "currentPrice", "price" >>)))
          value == or_chain(gets(item, << "market_value", "marketValue",
                                         "current_market_value", "value" >>))
          market_value == IF JTruthy(value) THEN float(value)
                          ELSE IF JTruthy(current_price.value) /\ JTruthy(shares.value)
                               THEN Return(JNum(current_price.value.value * shares.value.value))
                               ELSE Return(value)
          sector == or_chain(gets(item, << "sector", "Sector" >>))
      IN IF shares.raised # None THEN shares
         ELSE IF average_cost.raised # None THEN average_cost
         ELSE IF current_price.raised # None THEN current_price
         ELSE IF market_value.raised # None THEN market_value
         ELSE IF symbol.type # "str"
              THEN Raise("AttributeError", "object has no attribute 'upper'")
         ELSE IF validate_str(name).raised # None THEN validate_str(name)
         ELSE IF validate_optional_float(average_cost.value).raised # None
              THEN validate_optional_float(average_cost.value)
         ELSE IF validate_optional_float(current_price.value).raised # None
              THEN validate_optional_float(current_price.value)
         ELSE IF validate_optional_float(market_value.value).raised # None
              THEN validate_optional_float(market_value.value)
         ELSE IF validate_optional_str(sector).raised # None
              THEN validate_optional_str(sector)
         ELSE Return([symbol |-> upper(symbol.value),
                      name |-> name.value,
                      shares |-> shares.value.value,
                      average_cost |-> validate_optional_float(average_cost.value).value,
                      current_price |-> validate_optional_float(current_price.value).value,
                      market_value |-> validate_optional_float(market_value.value).value,
                      sector |-> validate_optional_str(sector).value])

\* for item in holdings_data: ... ; the first item that raises ends the loop
RECURSIVE parse_items(_)
parse_items(items) ==
    IF items = <<>> THEN Return(<<>>)
    ELSE LET holding == parse_single_holding(Head(items))
         IN IF holding.raised # None THEN holding
            ELSE LET rest == parse_items(Tail(items))
                 IN IF rest.raised # None THEN rest
                    ELSE Return((IF holding.value = None THEN <<>>
                                 ELSE << holding.value >>) \o rest.value)

\* the keys of a dict, as iterating the dict yields them
RECURSIVE keys_of(_)
keys_of(keys) ==
    IF keys = {} THEN <<>>
    ELSE LET key == CHOOSE k \in keys : TRUE
         IN << JStr(key) >> \o keys_of(keys \ {key})

\* what `for item in holdings_data` iterates over: the items of a list, the
\* keys of a dict, the characters of a string; TypeError for null or a number
iterate(holdings_data) ==
    CASE holdings_data.type = "list" -> Return(holdings_data.value)
      [] holdings_data.type = "dict" -> Return(keys_of(DOMAIN holdings_data.value))
      [] holdings_data.type = "str" ->
           Return([i \in 1..Len(holdings_data.value) |-> JStr("c")])
      [] OTHER -> Raise("TypeError", "object is not iterable")

\* a parse that does not know the key positions
parse_holdings_without_positions(data) ==
    LET holdings_data ==
          IF data.type = "list" THEN data
          ELSE IF data.type = "dict"
          THEN (IF "portfolio_holdings" \in DOMAIN data.value
                THEN data.value["portfolio_holdings"]
                ELSE IF "holdings" \in DOMAIN data.value THEN data.value["holdings"]
                ELSE IF "data" \in DOMAIN data.value THEN data.value["data"]
                ELSE JList(<< data >>))
          ELSE JList(<<>>)
    IN IF iterate(holdings_data).raised # None THEN iterate(holdings_data)
       ELSE parse_items(iterate(holdings_data).value)

\* HoldingsFetcher._parse_holdings
parse_holdings(data) ==
    LET holdings_data ==
          IF data.type = "list" THEN data
          ELSE IF data.type = "dict"
          THEN (IF "portfolio_holdings" \in DOMAIN data.value
                THEN data.value["portfolio_holdings"]
                ELSE IF "holdings" \in DOMAIN data.value THEN data.value["holdings"]
                ELSE IF "data" \in DOMAIN data.value THEN data.value["data"]
                ELSE IF "positions" \in DOMAIN data.value THEN data.value["positions"]
                ELSE JList(<< data >>))
          ELSE JList(<<>>)
    IN IF iterate(holdings_data).raised # None THEN iterate(holdings_data)
       ELSE parse_items(iterate(holdings_data).value)

\* The portfolios the holdings endpoint may serve in the model.
Portfolios ==
    { << Holding("MSFT", "Microsoft Corporation", 5, Some(300)),
         Holding("AAPL", "", 20, None) >> }

\* What  await fetcher.fetch_holdings()  may do for its caller: return the
\* parsed HoldingsResponse, re-raise the httpx.HTTPError of the request
\* (connection refused, timeout, non-2xx status), or raise something else
\* (response.json() on a body that is not JSON).
FetchOutcomes(utcnow) ==
    { [raised |-> None, value |-> HoldingsResponse(p, None, utcnow, "ngrok")]
        : p \in Portfolios }
    \cup
    { [raised |-> e, value |-> None]
        : e \in { Exc("ConnectError", "All connection attempts failed"),
                  Exc("ReadTimeout", "The read operation timed out"),
                  Exc("HTTPStatusError", "Server error '500 Internal Server Error'"),
                  Exc("JSONDecodeError", "Expecting value: line 1 column 1 (char 0)") } }

(***************************************************************************)
(* services/performance_analyzer.py                                        *)
(***************************************************************************)
\* yfinance Ticker(symbol).info as the analyzer reads it; raises = TRUE when
\* reading it raises.
Info(currentPrice, previousClose, volume) ==
    [raises |-> FALSE, currentPrice |-> currentPrice, regularMarketPrice |-> None,
     previousClose |-> previousClose, regularMarketPreviousClose |-> None,
     dayHigh |-> None, dayLow |-> None, volume |-> volume, shortName |-> "Short"]
InfoRaises == [Info(None, None, None) EXCEPT !.raises = TRUE]

\* a comparison that leaves out the threshold itself
exceeds_threshold(change_percent) == Abs(change_percent) > fluctuation_threshold

\* abs(change_percent) >= self.settings.fluctuation_threshold
meets_threshold(change_percent) == Abs(change_percent) >= fluctuation_threshold

\* PerformanceAnalyzer._get_stock_performance.  The percentage is a float in
\* the code; the quotes of the model are such that it is a whole number, so
\* the integer division here is exact.
get_stock_performance(holding, info) ==
    IF info.raises
    THEN [symbol |-> holding.symbol, name |-> holding.name, shares |-> holding.shares,
          current_price |-> None, previous_close |-> None,
          change_amount |-> None, change_percent |-> None,
          day_high |-> None, day_low |-> None, volume |-> None,
          market_value |-> None, is_high_fluctuation |-> FALSE]
    ELSE
      LET current_price == PyOr(info.currentPrice, info.regularMarketPrice)
          previous_close == PyOr(info.previousClose, info.regularMarketPreviousClose)
          known == Truthy(current_price) /\ Truthy(previous_close)
          change_amount == Val(current_price) - Val(previous_close)
          change_percent == (change_amount * 100) \div Val(previous_close)
      IN [symbol |-> holding.symbol,
          name |-> StrOr(holding.name, info.shortName),
          shares |-> holding.shares,
          current_price |-> current_price,
          previous_close |-> previous_close,
          change_amount |-> IF known THEN Some(change_amount) ELSE None,
          change_percent |-> IF known THEN Some(change_percent) ELSE None,
          day_high |-> info.dayHigh, day_low |-> info.dayLow, volume |-> info.volume,
          market_value |-> IF Truthy(current_price) /\ holding.shares # 0
                           THEN Some(Val(current_price) * holding.shares) ELSE None,
          is_high_fluctuation |->
              known /\ meets_threshold(change_percent)]

\* an evaluation that leaves out the holdings whose lookup raised
analyze_holdings_dropping_failed(holdings, infos) ==
    LET kept == SelectSeq(holdings, LAMBDA h : ~infos[h.symbol].raises)
    IN [i \in 1..Len(kept) |-> get_stock_performance(kept[i], infos[kept[i].symbol])]

\* PerformanceAnalyzer.analyze_holdings: one lookup per holding, gathered in
\* the order of the holdings; no record is None, so none is filtered out.
analyze_holdings(holdings, infos) ==
    [i \in 1..Len(holdings) |-> get_stock_performance(holdings[i], infos[holdings[i].symbol])]

\* an alert that reports every move as a rise
FluctuationAlertRising(p) ==
    [symbol |-> p.symbol, name |-> p.name, change_percent |-> Val(p.change_percent),
     change_amount |-> p.change_amount, current_price |-> p.current_price,
     previous_close |-> p.previous_close, direction |-> "up", volume |-> p.volume]

\* the FluctuationAlert that get_fluctuation_alerts builds of a record
FluctuationAlert(p) ==
    [symbol |-> p.symbol, name |-> p.name, change_percent |-> Val(p.change_percent),
     change_amount |-> p.change_amount, current_price |-> p.current_price,
     previous_close |-> p.previous_close,
     direction |-> IF Val(p.change_percent) > 0 THEN "up" ELSE "down",
     volume |-> p.volume]

RECURSIVE FlaggedAlerts(_)
FlaggedAlerts(performances) ==
    IF performances = <<>> THEN <<>>
    ELSE (IF Head(performances).is_high_fluctuation
             /\ Head(performances).change_percent # None
          THEN << FluctuationAlert(Head(performances)) >> ELSE <<>>)
         \o FlaggedAlerts(Tail(performances))

\* an ascending sort read backwards: descending, with equal keys in the
\* reverse of the input order
alerts_ascending_reversed(performances) ==
    LET alerts == FlaggedAlerts(performances)
        asc == Items(SortAsc([i \in 1..Len(alerts) |->
                                <<Abs(alerts[i].change_percent), alerts[i]>>]))
    IN [i \in 1..Len(asc) |-> asc[Len(asc) + 1 - i]]

\* PerformanceAnalyzer.get_fluctuation_alerts
get_fluctuation_alerts(performances) ==
    LET alerts == FlaggedAlerts(performances)
    IN Items(SortDesc([i \in 1..Len(alerts) |->
                          <<Abs(alerts[i].change_percent), alerts[i]>>]))

(***************************************************************************)
(* cachetools.TTLCache as the collectors use it: a function from the keys  *)
(* present to [value, expires].  An entry is visible while the timer is    *)
(* before its expiry; a store first drops the expired entries.  (maxsize   *)
(* is 100; the model never holds that many keys, so nothing is evicted.)   *)
(***************************************************************************)
EmptyCache == <<>>

\* key in cache
cache_contains(cache, key, t) == key \in DOMAIN cache /\ t < cache[key].expires

\* cache[key]
cache_get(cache, key) == cache[key].value

\* TTLCache.expire
cache_expire(cache, t) ==
    [k \in {j \in DOMAIN cache : t < cache[j].expires} |-> cache[k]]

\* cache[key] = value
cache_set(cache, key, value, t, ttl) ==
    LET live == cache_expire(cache, t)
    IN [k \in DOMAIN live \cup {key} |->
           IF k = key THEN [value |-> value, expires |-> t + ttl] ELSE live[k]]

(***************************************************************************)
(* services/earnings_collector.py                                          *)
(***************************************************************************)
SecondsPerDay == 86400

\* EarningsCollector.__init__: the ttl of its cache
earnings_ttl == earnings_cache_hours * 3600

EarningsCollector == [cache |-> EmptyCache]

\* yfinance Ticker(symbol) as the earnings lookup reads it: raises = TRUE when
\* a read raises; earnings_date is the date the lookup extracts from the
\* calendar (or from info), None when it finds none.
Calendar(earnings_date) ==
    [raises |-> FALSE, earnings_date |-> earnings_date, shortName |-> "Short",
     eps |-> None, revenue |-> None]
CalendarRaises == [Calendar(None) EXCEPT !.raises = TRUE]

\* a lookup that answers a failure with an event without date
get_earnings_for_symbol_reporting(symbol, ticker, t) ==
    IF ticker.raises
    THEN [symbol |-> symbol, name |-> symbol, earnings_date |-> t, time_of_day |-> None,
          eps_estimate |-> None, revenue_estimate |-> None, days_until |-> 0]
    ELSE IF ticker.earnings_date = None THEN None
    ELSE LET earnings_date == Val(ticker.earnings_date)
             days_until == (earnings_date - t) \div SecondsPerDay
         IN IF days_until < 0 \/ days_until > 30 THEN None
            ELSE [symbol |-> symbol, name |-> ticker.shortName,
                  earnings_date |-> earnings_date, time_of_day |-> None,
                  eps_estimate |-> ticker.eps, revenue_estimate |-> ticker.revenue,
                  days_until |-> days_until]

\* EarningsCollector._get_earnings_for_symbol, at time t
get_earnings_for_symbol(symbol, ticker, t) ==
    IF ticker.raises THEN None
    ELSE IF ticker.earnings_date = None THEN None
    ELSE LET earnings_date == Val(ticker.earnings_date)
             days_until == (earnings_date - t) \div SecondsPerDay
         IN IF days_until < 0 \/ days_until > 30 THEN None
            ELSE [symbol |-> symbol, name |-> ticker.shortName,
                  earnings_date |-> earnings_date, time_of_day |-> None,
                  eps_estimate |-> ticker.eps, revenue_estimate |-> ticker.revenue,
                  days_until |-> days_until]

RECURSIVE NotNone(_)
NotNone(results) ==
    IF results = <<>> THEN <<>>
    ELSE (IF Head(results) = None THEN <<>> ELSE <<Head(results)>>)
         \o NotNone(Tail(results))

\* the cache key built from the symbols in the order given
unsorted_cache_key(symbols) == Join(",", symbols)

\* the cache key of EarningsCollector.get_earnings_for_symbols
earnings_cache_key(symbols) == Join(",", sorted(symbols))

\* get_earnings_for_symbols storing the list only if it is not empty
get_earnings_for_symbols_storing_found(collector, symbols, tickers, t) ==
    LET cache_key == earnings_cache_key(symbols)
    IN IF cache_contains(collector.cache, cache_key, t)
       THEN [collector |-> collector, lookups |-> <<>>,
             result |-> cache_get(collector.cache, cache_key)]
       ELSE LET results == [i \in 1..Len(symbols) |->
                             get_earnings_for_symbol(symbols[i], tickers[symbols[i]], t)]
                found == NotNone(results)
                earnings == Items(SortAsc([i \in 1..Len(found) |->
                                            <<found[i].earnings_date, found[i]>>]))
            IN [collector |->
                   IF earnings = <<>> THEN collector
                   ELSE [collector EXCEPT !.cache =
                           cache_set(collector.cache, cache_key, earnings, t, earnings_ttl)],
                lookups |-> symbols,
                result |-> earnings]

\* EarningsCollector.get_earnings_for_symbols at time t, with the tickers the
\* lookups see.  lookups lists the symbols a per-symbol lookup was run for.
get_earnings_for_symbols(collector, symbols, tickers, t) ==
    LET cache_key == earnings_cache_key(symbols)
    IN IF cache_contains(collector.cache, cache_key, t)
       THEN [collector |-> collector, lookups |-> <<>>,
             result |-> cache_get(collector.cache, cache_key)]
       ELSE LET results == [i \in 1..Len(symbols) |->
                             get_earnings_for_symbol(symbols[i], tickers[symbols[i]], t)]
                found == NotNone(results)
                earnings == Items(SortAsc([i \in 1..Len(found) |->
                                            <<found[i].earnings_date, found[i]>>]))
            IN [collector |->
                   [collector EXCEPT !.cache =
                       cache_set(collector.cache, cache_key, earnings, t, earnings_ttl)],
                lookups |-> symbols,
                result |-> earnings]

\* The text of a table cell or JSON string as a date format reads it:
\* fields is <<month, day, year>> when the text has the shape mm/dd/yyyy,
\* None when it has not.
DateText(month, day, year) == [fields |-> << month, day, year >>]
PlainText == [fields |-> None]

IsLeap(year) == year % 4 = 0 /\ (year % 100 # 0 \/ year % 400 = 0)

MonthLength(month, year) ==
    IF month = 2 THEN (IF IsLeap(year) THEN 29 ELSE 28)
    ELSE IF month \in {4, 6, 9, 11} THEN 30 ELSE 31

RECURSIVE DaysBeforeMonth(_, _)
DaysBeforeMonth(month, year) ==
    IF month = 1 THEN 0
    ELSE MonthLength(month - 1, year) + DaysBeforeMonth(month - 1, year)

\* days from 1 January 1970 to 1 January of the year
RECURSIVE DaysBeforeYear(_)
DaysBeforeYear(year) ==
    IF year = 1970 THEN 0
    ELSE IF year > 1970
         THEN DaysBeforeYear(year - 1) + (IF IsLeap(year - 1) THEN 366 ELSE 365)
         ELSE DaysBeforeYear(year + 1) - (IF IsLeap(year) THEN 366 ELSE 365)

\* datetime.strptime(date_str, "%m/%d/%Y"): midnight of the day, in seconds;
\* None stands for ValueError (another shape, or no such day)
strptime(date_str) ==
    IF date_str.fields = None THEN None
    ELSE LET month == date_str.fields[1]
             day == date_str.fields[2]
             year == date_str.fields[3]
         IN IF month \notin 1..12 \/ day < 1 THEN None
            ELSE IF day > MonthLength(month, year) THEN None
            ELSE Some((DaysBeforeYear(year) + DaysBeforeMonth(month, year) + day - 1)
                         * SecondsPerDay)

\* The page GET https://www.nasdaq.com/market-activity/earnings answers:
\* raises = TRUE when the request or raise_for_status raises; table is the
\* rows of <table class="earnings-table">, each the texts of its td cells
\* and the first the header, or None when the page has no such table.
Page(table) == [raises |-> FALSE, table |-> table]
PageRaises == [raises |-> TRUE, table |-> None]

\* the body of the loop over the rows
RECURSIVE scrape_rows(_, _, _)
scrape_rows(rows, symbols_set, t) ==
    IF rows = <<>> THEN <<>>
    ELSE LET cols == Head(rows)
             rest == scrape_rows(Tail(rows), symbols_set, t)
         IN IF Len(cols) < 3 THEN rest
            ELSE IF upper(cols[1]) \notin symbols_set THEN rest
            ELSE IF strptime(cols[2]) = None THEN rest
            ELSE LET earnings_date == Val(strptime(cols[2]))
                     days_until == (earnings_date - t) \div SecondsPerDay
                 IN << [symbol |-> upper(cols[1]), name |-> cols[3],
                        earnings_date |-> earnings_date, time_of_day |-> None,
                        eps_estimate |-> None, revenue_estimate |-> None,
                        days_until |-> days_until] >> \o rest

\* EarningsCollector.scrape_nasdaq_earnings at time t
scrape_nasdaq_earnings(symbols, page, t) ==
    IF page.raises THEN <<>>
    ELSE IF page.table = None THEN <<>>
    ELSE scrape_rows(SubSeq(page.table, 2, Len(page.table)),
                     { upper(symbols[i]) : i \in 1..Len(symbols) }, t)

\* EarningsCollector.clear_cache
earnings_clear_cache(collector) == [collector EXCEPT !.cache = EmptyCache]

(***************************************************************************)
(* services/news_collector.py                                              *)
(***************************************************************************)
\* NewsCollector.__init__: the ttl of its cache
news_ttl == news_cache_minutes * 60

NewsCollector == [cache |-> EmptyCache]

\* datetime.min, the sort key of an item without publish time: year 1, before
\* every timestamp; here the least time the model's integers represent
DatetimeMin == -2147483647

\* yfinance Ticker(symbol).news: raises = TRUE when reading it raises
Feed(items) == [raises |-> FALSE, items |-> items]
FeedRaises == [raises |-> TRUE, items |-> <<>>]
FeedItem(title, providerPublishTime) ==
    [title |-> title, publisher |-> "Wire", link |-> "https://news/" \o title,
     providerPublishTime |-> providerPublishTime]

NewsItem(symbol, item) ==
    [symbol |-> symbol, title |-> item.title, publisher |-> item.publisher,
     link |-> item.link,
     published_at |-> IF Truthy(item.providerPublishTime)
                      THEN item.providerPublishTime ELSE None,
     summary |-> None, thumbnail_url |-> None]

\* NewsCollector._get_news_for_symbol
get_news_for_symbol(symbol, feed, max_items) ==
    IF feed.raises THEN <<>>
    ELSE LET n == IF Len(feed.items) < max_items THEN Len(feed.items) ELSE max_items
         IN [i \in 1..n |-> NewsItem(symbol, feed.items[i])]

\* the cache key of NewsCollector.get_news_for_symbols
news_cache_key(symbols, max_per_symbol) ==
    Join(",", sorted(symbols)) \o ":" \o ToString(max_per_symbol)

\* NewsCollector.get_news_for_symbols at time t, with the feeds the lookups see
get_news_for_symbols(collector, symbols, max_per_symbol, feeds, t) ==
    LET cache_key == news_cache_key(symbols, max_per_symbol)
    IN IF cache_contains(collector.cache, cache_key, t)
       THEN [collector |-> collector, lookups |-> <<>>,
             result |-> cache_get(collector.cache, cache_key)]
       ELSE LET results == [i \in 1..Len(symbols) |->
                             get_news_for_symbol(symbols[i], feeds[symbols[i]], max_per_symbol)]
                flat == Flatten(results)
                all_news == Items(SortDesc([i \in 1..Len(flat) |->
                               <<IF flat[i].published_at # None
                                 THEN Val(flat[i].published_at) ELSE DatetimeMin,
                                 flat[i]>>]))
            IN [collector |->
                   [collector EXCEPT !.cache =
                       cache_set(collector.cache, cache_key, all_news, t, news_ttl)],
                lookups |-> symbols,
                result |-> all_news]

\* NewsCollector.get_news_for_high_fluctuation
get_news_for_high_fluctuation(collector, symbols, feeds, t) ==
    get_news_for_symbols(collector, symbols, 3, feeds, t)

\* NewsCollector.clear_cache
news_clear_cache(collector) == [collector EXCEPT !.cache = EmptyCache]

(***************************************************************************)
(* services/llm_agent.py                                                   *)
(***************************************************************************)
\* LLMAgent.is_configured
is_configured(settings) ==
    CASE settings.llm_provider = "openai" -> settings.openai_api_key # ""
      [] settings.llm_provider = "anthropic" -> settings.anthropic_api_key # ""
      [] settings.llm_provider = "local" -> settings.local_llm_url # ""
      [] OTHER -> FALSE

\* One line of a provider reply after line.strip(): the bullet character it
\* starts with ("" if none), the text left by lstrip of the bullets and blanks.strip() (the
\* whole line if it has no bullet), and which of the words the parser looks
\* for are in line.lower().
Line(marker, content, words) == [marker |-> marker, content |-> content, words |-> words]

\* the line as it stands in the reply
Raw(line) == IF line.marker = "" THEN line.content
             ELSE line.marker \o " " \o line.content

\* What the provider call of generate_summary may do: return text (here the
\* lines of a reply without section headers or bullets) or raise.
ProviderOutcomes ==
    { [raised |-> None, text |-> << Line("", "Portfolio is stable.", {}),
                                    Line("", "No action needed.", {}) >>],
      [raised |-> Exc("APIError", "rate limit exceeded"), text |-> <<>>] }

\* the locals of _parse_response before the loop
ParseStart ==
    [current_section |-> "summary", summary |-> "", key_insights |-> <<>>,
     recommendations |-> <<>>, risk_factors |-> <<>>]

\* the body of the loop of LLMAgent._parse_response
parse_line(st, line) ==
    IF line.marker = "" /\ line.content = "" THEN st
    ELSE IF "insight" \in line.words
    THEN [st EXCEPT !.current_section = "insights"]
    ELSE IF line.words \cap {"recommendation", "action"} # {}
    THEN [st EXCEPT !.current_section = "recommendations"]
    ELSE IF line.words \cap {"risk", "caution", "warning"} # {}
    THEN [st EXCEPT !.current_section = "risks"]
    ELSE IF "summary" \in line.words
    THEN [st EXCEPT !.current_section = "summary"]
    ELSE IF line.marker # ""
    THEN CASE st.current_section = "insights" ->
                 [st EXCEPT !.key_insights = Append(@, line.content)]
           [] st.current_section = "recommendations" ->
                 [st EXCEPT !.recommendations = Append(@, line.content)]
           [] st.current_section = "risks" ->
                 [st EXCEPT !.risk_factors = Append(@, line.content)]
           [] OTHER -> st
    ELSE IF st.current_section = "summary" /\ st.summary = ""
    THEN [st EXCEPT !.summary = line.content]
    ELSE IF st.current_section = "summary"
    THEN [st EXCEPT !.summary = @ \o " " \o line.content]
    ELSE st

\* the locals of _parse_response after the loop
RECURSIVE parse_lines(_)
parse_lines(lines) ==
    IF lines = <<>> THEN ParseStart
    ELSE parse_line(parse_lines(SubSeq(lines, 1, Len(lines) - 1)), lines[Len(lines)])

\* LLMAgent._parse_response; the replies of the model are shorter than the
\* 500 characters of response[:500]
parse_response(lines, settings, utcnow) ==
    LET st == parse_lines(lines)
        response == Join("\n", [i \in 1..Len(lines) |-> Raw(lines[i])])
    IN [summary |-> IF st.summary # "" THEN st.summary
                    ELSE IF response # "" THEN response ELSE "Analysis complete.",
        key_insights |-> IF st.key_insights # <<>> THEN st.key_insights
                         ELSE <<"Analysis complete - review details below">>,
        recommendations |-> IF st.recommendations # <<>> THEN st.recommendations
                            ELSE <<"Monitor high-fluctuation positions">>,
        risk_factors |-> st.risk_factors,
        generated_at |-> utcnow,
        model_used |-> settings.llm_provider \o "/" \o llm_model]

\* LLMAgent.generate_summary, given what the provider call does
generate_summary(settings, holdings, fluctuations, earnings, news, outcome, utcnow) ==
    IF outcome.raised = None
    THEN parse_response(outcome.text, settings, utcnow)
    ELSE [summary |-> "Unable to generate AI analysis: " \o outcome.raised.msg,
          key_insights |->
              << "Portfolio contains " \o ToString(Len(holdings)) \o " holdings",
                 ToString(Len(fluctuations)) \o " stocks show significant movement (>5%)",
                 ToString(Len(earnings)) \o " upcoming earnings events" >>,
          recommendations |-> <<"Review high-fluctuation stocks manually">>,
          risk_factors |-> <<"AI analysis unavailable">>,
          generated_at |-> utcnow,
          model_used |-> "error"]

(***************************************************************************)
(* What one process lifetime sees of the outside: the market data of the   *)
(* lookups, and the exceptions the holdings endpoint makes fetch_holdings  *)
(* raise.                                                                  *)
(***************************************************************************)
DaySeconds(d) == d * SecondsPerDay

\* movers, upcoming earnings and news; one symbol whose lookups raise
WorldActive ==
    [info |-> [s \in Symbols |->
                 CASE s = "AAPL" -> Info(Some(110), Some(100), Some(5000))
                   [] s = "GOOGL" -> Info(Some(140), None, None)
                   [] s = "MSFT" -> Info(Some(101), Some(100), None)
                   [] s = "NVDA" -> InfoRaises
                   [] s = "TSLA" -> Info(Some(93), Some(100), Some(7000))],
     calendar |-> [s \in Symbols |->
                 CASE s = "AAPL" -> Calendar(Some(DaySeconds(10)))
                   [] s = "GOOGL" -> Calendar(None)
                   [] s = "MSFT" -> Calendar(Some(DaySeconds(3) + 3600))
                   [] s = "NVDA" -> CalendarRaises
                   [] s = "TSLA" -> Calendar(Some(DaySeconds(45)))],
     news |-> [s \in Symbols |->
                 CASE s = "AAPL" -> Feed(<< FeedItem("a1", Some(500)), FeedItem("a2", None) >>)
                   [] s = "GOOGL" -> Feed(<<>>)
                   [] s = "MSFT" -> Feed(<< FeedItem("m1", Some(600)) >>)
                   [] s = "NVDA" -> FeedRaises
                   [] s = "TSLA" -> Feed(<< FeedItem("t1", Some(700)) >>)],
     endpoint |-> {"ConnectError", "ReadTimeout", "HTTPStatusError", "JSONDecodeError"}]

\* the same market behind a holdings endpoint that always answers
WorldReachable == [WorldActive EXCEPT !.endpoint = {}]

\* a flat market: no mover, no earnings date, every news lookup raising
WorldQuiet ==
    [info |-> [s \in Symbols |-> Info(Some(100), Some(100), None)],
     calendar |-> [s \in Symbols |-> Calendar(None)],
     news |-> [s \in Symbols |-> FeedRaises],
     endpoint |-> {"ConnectError", "ReadTimeout", "HTTPStatusError", "JSONDecodeError"}]

\* the worlds by name
World(name) ==
    CASE name = "active" -> WorldActive
      [] name = "reachable" -> WorldReachable
      [] name = "quiet" -> WorldQuiet

(***************************************************************************)
(* State.                                                                  *)
(***************************************************************************)
VARIABLES
    analysis_in_progress,    \* routers/agent.py  _analysis_in_progress
    latest_analysis,         \* routers/agent.py  _latest_analysis
    runs,                    \* the pipeline executions in flight: a bag of their locals
    last_event,              \* what the latest step exchanged with the outside
    collectors,              \* an EarningsCollector and a NewsCollector kept across calls
    scheduler,               \* the AnalysisScheduler singleton
    settings,                \* get_settings()
    agent_module_registered, \* 'backend.app.routers.agent' in sys.modules
    world,                   \* the name of the world of this process lifetime
    now,                     \* the clock
    input,                   \* the arguments of the function a caller applies
    pool                     \* the thread pool of a service during one of its calls

\* the world the process lives in
Market == World(world)

vars == << analysis_in_progress, latest_analysis, runs, last_event, collectors,
           scheduler, settings, agent_module_registered, world, now, input, pool >>

\* The locals of analyze_portfolio / _run_analysis when the pipeline starts:
\* the services created for this execution, the request, and nothing yet of
\* what the stages return.  pc names the await the execution is suspended in.
NewRun(kind, request) ==
    [pc |-> "fetch_holdings", kind |-> kind, request |-> request, cleared |-> {},
     earnings_collector |-> EarningsCollector, news_collector |-> NewsCollector,
     holdings_response |-> None, performance |-> <<>>, fluctuations |-> <<>>,
     earnings |-> <<>>, news |-> <<>>, summary |-> None]

\* the executions in flight, and how many of them are of the given kinds
Running == BagToSet(runs)
NumRunning(kinds) ==
    BagCardinality([run \in {x \in Running : x.kind \in kinds} |-> runs[run]])

Started(run) == runs (+) SetToBag({run})
Ended(run) == runs (-) SetToBag({run})
Moved(run, to) == (runs (-) SetToBag({run})) (+) SetToBag({to})

\* models/agent.py AnalyzeResponse
AnalyzeResponse(summary, fluctuation_alerts, upcoming_earnings, news_items, holdings_count, analyzed_at, status, error) ==
    [summary |-> summary, fluctuation_alerts |-> fluctuation_alerts,
     upcoming_earnings |-> upcoming_earnings, news_items |-> news_items,
     holdings_count |-> holdings_count, analyzed_at |-> analyzed_at,
     status |-> status, error |-> error]

\* analyze_portfolio, "Generate basic summary without LLM"
BasicSummary(run, utcnow) ==
    [summary |-> "Portfolio analysis complete. "
                  \o ToString(Len(run.holdings_response.holdings))
                  \o " holdings analyzed, " \o ToString(Len(run.fluctuations))
                  \o " showing significant movement.",
     key_insights |->
         << "Total holdings: " \o ToString(Len(run.holdings_response.holdings)),
            "High fluctuation stocks: " \o ToString(Len(run.fluctuations)),
            "Upcoming earnings: " \o ToString(Len(run.earnings)) >>,
     recommendations |-> <<"Configure LLM API key for detailed AI analysis">>,
     risk_factors |-> <<>>,
     generated_at |-> utcnow,
     model_used |-> "none"]

\* analyze_portfolio, "Build response"
SuccessResponse(run, utcnow) ==
    AnalyzeResponse(run.summary, run.fluctuations, run.earnings, run.news,
                    Len(run.holdings_response.holdings), utcnow, "success", None)

\* ErrorResponse without the message of the exception
ErrorResponseNoMessage(e, utcnow) ==
    AnalyzeResponse(None, <<>>, <<>>, <<>>, 0, utcnow, "error", None)

\* analyze_portfolio, except Exception as e
ErrorResponse(e, utcnow) ==
    AnalyzeResponse(None, <<>>, <<>>, <<>>, 0, utcnow, "error", Some(e.msg))

\* _run_analysis, the AnalyzeResponse it stores
SchedulerResponse(run, utcnow) ==
    AnalyzeResponse(IF is_configured(settings) THEN run.summary ELSE None,
                    run.fluctuations, run.earnings, run.news,
                    Len(run.holdings_response.holdings), utcnow, "success", None)

\* What a step exchanges with the outside: the HTTP response of a request
\* handler (status code and body), the line _run_analysis prints when it
\* ends, what the holdings endpoint answered.  last_event holds the event of
\* the latest step, None if there was none.
Event(kind, status_code, body, log) ==
    [kind |-> kind, status_code |-> status_code, body |-> body, log |-> log]

\* the latest step sent an event of this kind
IsEvent(e, kind) == e # None /\ e.kind = kind

\* trigger_analysis answers 200 "triggered" once run_analysis_now returns;
\* the cron job answers to nobody
SchedulerEvent(kind, log) ==
    IF kind = "trigger"
    THEN Event(kind, Some(200), [status |-> "triggered"], Some(log))
    ELSE Event(kind, None, None, Some(log))

\* The exception a stage may raise past its own handlers: fetch_holdings is
\* covered by FetchOutcomes; the others lose their executor or their inputs.
StageException(pc) ==
    CASE pc = "analyze_holdings" -> Exc("RuntimeError", "cannot schedule new futures after shutdown")
      [] pc = "get_earnings" -> Exc("TypeError", "can't compare offset-naive and offset-aware datetimes")
      [] pc = "get_news" -> Exc("RuntimeError", "cannot schedule new futures after shutdown")
      [] pc = "generate_summary" -> Exc("ValueError", "Unknown format code")

(***************************************************************************)
(* How a pipeline execution goes on after a stage has returned.            *)
(***************************************************************************)
IncludeEarnings(run) == run.kind # "analyze" \/ run.request.include_earnings

\* news collected whatever the request says
IncludeNewsAlways(run) == TRUE

IncludeNews(run) == run.kind # "analyze" \/ run.request.include_news

\* after the news stage: the summary stage awaits the LLM only if configured
AfterNews(run) ==
    IF is_configured(settings) THEN "generate_summary" ELSE "finish"

\* after the earnings stage: news is fetched only for fluctuation symbols
AfterEarnings(run) ==
    IF IncludeNews(run) /\ run.fluctuations # <<>> THEN "get_news" ELSE AfterNews(run)

\* after the performance stage, going on to the summary at once
AfterPerformanceToSummary(run) == AfterNews(run)

\* after the performance stage
AfterPerformance(run) ==
    IF IncludeEarnings(run) THEN "get_earnings" ELSE AfterEarnings(run)

\* The end of the try block of analyze_portfolio: build the response, store
\* it, return it; the finally clause clears the flag.  from is the execution
\* as it was suspended, run its locals now.
FinishAnalyze(from, run) ==
    LET done == IF is_configured(settings) THEN run
                ELSE [run EXCEPT !.summary = BasicSummary(run, now)]
        response == SuccessResponse(done, now)
    IN /\ latest_analysis' = response
       /\ last_event' = Event("analyze", Some(200), response, None)
       /\ analysis_in_progress' = FALSE
       /\ runs' = Ended(from)
       /\ UNCHANGED scheduler

\* The end of the try block of _run_analysis: set _last_run, print, and store
\* the result in the agent router's module if sys.modules has it.
FinishScheduler(from, run) ==
    /\ scheduler' = [scheduler EXCEPT !.last_run = Some(now)]
    /\ latest_analysis' = IF agent_module_registered
                          THEN SchedulerResponse(run, now) ELSE latest_analysis
    /\ last_event' = SchedulerEvent(run.kind, "Analysis complete")
    /\ runs' = Ended(from)
    /\ UNCHANGED analysis_in_progress

\* FailAnalyze without the finally clause: the flag is cleared only where
\* the try block ends normally
FailAnalyzeNoFinally(from, e) ==
    /\ last_event' = Event("analyze", Some(200), ErrorResponse(e, now), None)
    /\ runs' = Ended(from)
    /\ UNCHANGED << analysis_in_progress, latest_analysis, scheduler >>

\* FailAnalyze storing the error response as the latest analysis
FailAnalyzeStoring(from, e) ==
    /\ last_event' = Event("analyze", Some(200), ErrorResponse(e, now), None)
    /\ latest_analysis' = ErrorResponse(e, now)
    /\ analysis_in_progress' = FALSE
    /\ runs' = Ended(from)
    /\ UNCHANGED scheduler

\* analyze_portfolio: except Exception as e ... finally
FailAnalyze(from, e) ==
    /\ last_event' = Event("analyze", Some(200), ErrorResponse(e, now), None)
    /\ analysis_in_progress' = FALSE
    /\ runs' = Ended(from)
    /\ UNCHANGED << latest_analysis, scheduler >>

\* FailScheduler with _last_run set only where the try block ends normally
FailSchedulerKeepingLastRun(from, e) ==
    /\ last_event' = SchedulerEvent(from.kind, "Analysis failed: " \o e.msg)
    /\ runs' = Ended(from)
    /\ UNCHANGED << latest_analysis, analysis_in_progress, scheduler >>

\* _run_analysis: except Exception as e
FailScheduler(from, e) ==
    /\ scheduler' = [scheduler EXCEPT !.last_run = Some(now)]
    /\ last_event' = SchedulerEvent(from.kind, "Analysis failed: " \o e.msg)
    /\ runs' = Ended(from)
    /\ UNCHANGED << latest_analysis, analysis_in_progress >>

\* an exception leaves the try block of the pipeline
Fail(from, e) ==
    IF from.kind = "analyze" THEN FailAnalyze(from, e) ELSE FailScheduler(from, e)

\* Continue publishing what the run has so far after every stage
ContinuePublishing(from, run) ==
    IF run.pc = "finish"
    THEN IF run.kind = "analyze" THEN FinishAnalyze(from, run) ELSE FinishScheduler(from, run)
    ELSE /\ runs' = Moved(from, run)
         /\ last_event' = None
         /\ latest_analysis' = AnalyzeResponse(None, run.fluctuations, run.earnings, run.news,
                                               Len(run.holdings_response.holdings), now,
                                               "success", None)
         /\ UNCHANGED << analysis_in_progress, scheduler >>

\* a stage has returned: run holds the locals, run.pc what comes next
Continue(from, run) ==
    IF run.pc = "finish"
    THEN IF run.kind = "analyze" THEN FinishAnalyze(from, run) ELSE FinishScheduler(from, run)
    ELSE /\ runs' = Moved(from, run)
         /\ last_event' = None
         /\ UNCHANGED << analysis_in_progress, latest_analysis, scheduler >>

(***************************************************************************)
(* POST /api/agent/analyze (routers/agent.py analyze_portfolio)            *)
(***************************************************************************)
\* ClearCaches clearing the earnings cache only
ClearEarningsCacheOnly(run) ==
    IF run.request.force_refresh
    THEN [run EXCEPT !.cleared = {"earnings"},
                     !.earnings_collector = earnings_clear_cache(run.earnings_collector)]
    ELSE run

\* if request.force_refresh: both clear_cache calls, on the collectors that
\* Depends() created for this request
ClearCaches(run) ==
    IF run.request.force_refresh
    THEN [run EXCEPT !.cleared = {"earnings", "news"},
                     !.earnings_collector = earnings_clear_cache(run.earnings_collector),
                     !.news_collector = news_clear_cache(run.news_collector)]
    ELSE run

\* The request is admitted: the flag is clear.  The handler sets it, clears
\* the caches if force_refresh, and awaits fetch_holdings.
AnalyzeAdmit(request) ==
    /\ NumRunning({"analyze"}) < NumRequests
    /\ ~analysis_in_progress
    /\ analysis_in_progress' = TRUE
    /\ runs' = Started(ClearCaches(NewRun("analyze", request)))
    /\ last_event' = None
    /\ UNCHANGED << latest_analysis, scheduler >>

\* AnalyzeReject with the 409 raised inside the try block: the finally
\* clause clears the flag of the run in progress
AnalyzeRejectInTry(request) ==
    /\ analysis_in_progress
    /\ last_event' = Event("analyze", Some(409), [detail |-> "Analysis already in progress"], None)
    /\ analysis_in_progress' = FALSE
    /\ UNCHANGED << latest_analysis, runs, scheduler >>

\* The request finds the flag set: HTTPException(409), raised before the try
\* block, so neither the except nor the finally clause runs.
AnalyzeReject(request) ==
    /\ analysis_in_progress
    /\ last_event' = Event("analyze", Some(409), [detail |-> "Analysis already in progress"], None)
    /\ UNCHANGED << analysis_in_progress, latest_analysis, runs, scheduler >>

(***************************************************************************)
(* scheduler/jobs.py: the cron job and POST /api/scheduler/trigger both    *)
(* execute AnalysisScheduler._run_analysis, which creates its services and *)
(* awaits fetch_holdings.                                                  *)
(***************************************************************************)
StartSchedulerRun(kind) ==
    /\ NumRunning({"cron", "trigger"}) < NumSchedRuns
    /\ runs' = Started(NewRun(kind, None))
    /\ last_event' = None
    /\ UNCHANGED << analysis_in_progress, latest_analysis, scheduler >>

\* The trigger of the job fires.  add_job keeps the default max_instances = 1:
\* the job is not started again while an instance of it still executes.
CronFire ==
    /\ scheduler.running /\ scheduler.jobs # << >>
    /\ NumRunning({"cron"}) = 0
    /\ StartSchedulerRun("cron")

\* trigger_analysis -> run_analysis_now
TriggerAnalysis == StartSchedulerRun("trigger")

\* CronTrigger(minute, hour, day, month, day_of_week) from the split fields
CronTrigger(cron_parts) ==
    [minute |-> cron_parts[1], hour |-> cron_parts[2], day |-> cron_parts[3],
     month |-> cron_parts[4], day_of_week |-> cron_parts[5]]

\* The fields of a CronTrigger and the values each may take (apscheduler
\* counts the days of the week from Monday = 0).
CronFields == << "minute", "hour", "day", "month", "day_of_week" >>

FieldMin(field) == IF field \in {"day", "month"} THEN 1 ELSE 0

FieldMax(field) ==
    CASE field = "minute" -> 59
      [] field = "hour" -> 23
      [] field = "day" -> 31
      [] field = "month" -> 12
      [] field = "day_of_week" -> 6

\* The field texts of the model that the expression parser reads as numbers,
\* lists of numbers or ranges, each as the set of its <<first, last>> ranges.
FieldSyntax ==
    ("0" :> {<<0, 0>>}) @@ ("30" :> {<<30, 30>>}) @@ ("8" :> {<<8, 8>>})
       @@ ("9" :> {<<9, 9>>}) @@ ("9,16" :> {<<9, 9>>, <<16, 16>>})
       @@ ("1-5" :> {<<1, 5>>}) @@ ("61" :> {<<61, 61>>}) @@ ("24" :> {<<24, 24>>})
       @@ ("7" :> {<<7, 7>>}) @@ ("2026" :> {<<2026, 2026>>})

\* The values a field of a CronTrigger takes for a text, None when the
\* trigger refuses the text (ValueError): an unrecognized expression, a
\* weekday name outside day_of_week, a value outside the range of the field.
parse_field(field, text) ==
    IF text = "*" THEN Some(FieldMin(field)..FieldMax(field))
    ELSE IF text = "mon-fri"
         THEN (IF field = "day_of_week" THEN Some(0..4) ELSE None)
    ELSE IF text \notin DOMAIN FieldSyntax THEN None
    ELSE IF \E r \in FieldSyntax[text] : r[1] < FieldMin(field) \/ r[2] > FieldMax(field)
         THEN None
    ELSE Some(UNION { r[1]..r[2] : r \in FieldSyntax[text] })

\* CronTrigger(...) raises for these fields
CronTriggerRaises(cron_parts) ==
    \E i \in 1..Len(CronFields) : parse_field(CronFields[i], cron_parts[i]) = None

\* the month and the day of the month of a day of 1970, counted from 0
RECURSIVE month_and_day(_, _)
month_and_day(day_of_year, month) ==
    IF day_of_year < MonthLength(month, 1970) THEN << month, day_of_year + 1 >>
    ELSE month_and_day(day_of_year - MonthLength(month, 1970), month + 1)

Min(set) == CHOOSE x \in set : \A y \in set : x <= y

\* the first fire time of the trigger on the day that is not before the
\* second of the day, None if it has none
fire_time_on(trigger, day, from_second) ==
    LET date == month_and_day(day, 1)
        hours == { h \in Val(parse_field("hour", trigger.hour)) :
                     \E m \in Val(parse_field("minute", trigger.minute)) :
                        h * 3600 + m * 60 >= from_second }
        hour == Min(hours)
        minute == Min({ m \in Val(parse_field("minute", trigger.minute)) :
                          hour * 3600 + m * 60 >= from_second })
    IN IF /\ date[1] \in Val(parse_field("month", trigger.month))
          /\ date[2] \in Val(parse_field("day", trigger.day))
          /\ (day + 3) % 7 \in Val(parse_field("day_of_week", trigger.day_of_week))
          /\ hours # {}
       THEN Some(day * SecondsPerDay + hour * 3600 + minute * 60)
       ELSE None

\* the lookahead of the search for a fire time
HorizonDays == 8

RECURSIVE fire_time_from(_, _, _)
fire_time_from(trigger, day, from_second) ==
    IF fire_time_on(trigger, day, from_second) # None
    THEN fire_time_on(trigger, day, from_second)
    ELSE fire_time_from(trigger, day + 1, 0)

\* trigger.get_next_fire_time(None, now) at time t (UTC, t within the first
\* days of 1970): the first fire time not before t, None if there is none
\* within the lookahead
get_next_fire_time(trigger, t) ==
    IF \E day \in (t \div SecondsPerDay + 1)..(t \div SecondsPerDay + HorizonDays) :
          fire_time_on(trigger, day, 0) # None
    THEN fire_time_from(trigger, t \div SecondsPerDay, t % SecondsPerDay)
    ELSE fire_time_on(trigger, t \div SecondsPerDay, t % SecondsPerDay)

\* AnalysisScheduler.__init__: self._job_id; the scheduler is not running,
\* its job store (jobs) is empty
job_id == "portfolio_analysis"

NewScheduler == [running |-> FALSE, jobs |-> << >>, last_run |-> None]

\* the positions of the jobs with the id in the job store
positions_of(jobs, id) == { i \in 1..Len(jobs) : jobs[i].id = id }

\* self._scheduler.get_job(id): the job, None if there is none
get_job(sched, id) ==
    IF positions_of(sched.jobs, id) = {} THEN None
    ELSE sched.jobs[Min(positions_of(sched.jobs, id))]

\* self._scheduler.add_job(..., replace_existing=True): the job takes the
\* place of the job of the same id, if there is one
add_job(jobs, job) ==
    IF positions_of(jobs, job.id) = {} THEN Append(jobs, job)
    ELSE [jobs EXCEPT ![Min(positions_of(jobs, job.id))] = job]

\* a start that does not look at the state of the scheduler
scheduler_start_unguarded(sched, t) ==
    LET trigger == IF Len(scheduler_cron) >= 5
                   THEN CronTrigger(scheduler_cron)
                   ELSE CronTrigger(<<"0", "9,16", "*", "*", "mon-fri">>)
    IN [sched EXCEPT
          !.running = TRUE,
          !.jobs = add_job(sched.jobs,
                           [id |-> job_id, trigger |-> trigger,
                            next_run_time |-> get_next_fire_time(trigger, t)])]

\* AnalysisScheduler.start at time t: add_job computes the next run time of
\* the job when the scheduler starts
scheduler_start(sched, t) ==
    IF sched.running THEN sched
    ELSE LET trigger == IF Len(scheduler_cron) >= 5
                        THEN CronTrigger(scheduler_cron)
                        ELSE CronTrigger(<<"0", "9,16", "*", "*", "mon-fri">>)
         IN [sched EXCEPT
               !.running = TRUE,
               !.jobs = add_job(sched.jobs,
                                [id |-> job_id, trigger |-> trigger,
                                 next_run_time |-> get_next_fire_time(trigger, t)])]

\* AnalysisScheduler.stop: shutdown() stops the scheduler and its memory job
\* store, which drops its jobs
scheduler_stop(sched) ==
    IF sched.running THEN [sched EXCEPT !.running = FALSE, !.jobs = << >>] ELSE sched

\* AnalysisScheduler.get_next_run_time
get_next_run_time(sched) ==
    IF get_job(sched, job_id) # None THEN get_job(sched, job_id).next_run_time ELSE None

\* AnalysisScheduler.get_status: cron_expression is settings.scheduler_cron
get_status(sched, config) ==
    [enabled |-> config.scheduler_enabled,
     running |-> sched.running,
     next_run |-> get_next_run_time(sched),
     last_run |-> sched.last_run,
     cron_expression |-> Join(" ", scheduler_cron),
     job_count |-> IF sched.running THEN Len(sched.jobs) ELSE 0]

\* cron_expression.split() on the expressions of the model
split(cron_expression) ==
    CASE cron_expression = "0 9,16 * * 1-5" -> << "0", "9,16", "*", "*", "1-5" >>
      [] cron_expression = "30 8 * * *" -> << "30", "8", "*", "*", "*" >>
      [] cron_expression = "  0  9 * * mon-fri " -> << "0", "9", "*", "*", "mon-fri" >>
      [] cron_expression = "* * * * * 2026" -> << "*", "*", "*", "*", "*", "2026" >>
      [] cron_expression = "" -> << >>
      [] cron_expression = "0 9 * *" -> << "0", "9", "*", "*" >>
      [] cron_expression = "61 * * * *" -> << "61", "*", "*", "*", "*" >>
      [] cron_expression = "0 24 * * *" -> << "0", "24", "*", "*", "*" >>
      [] cron_expression = "0 9 0 * *" -> << "0", "9", "0", "*", "*" >>
      [] cron_expression = "0 9 * mon-fri *" -> << "0", "9", "*", "mon-fri", "*" >>
      [] cron_expression = "0 9 * * 7" -> << "0", "9", "*", "*", "7" >>
      [] cron_expression = "0 9 * * funday" -> << "0", "9", "*", "*", "funday" >>

\* scheduler.reschedule_job(job_id, trigger=trigger) at time t
reschedule_job(sched, trigger, t) ==
    IF get_job(sched, job_id) = None
    THEN Raise("JobLookupError", "No job by the id of portfolio_analysis was found")
    ELSE Return([sched EXCEPT
                   !.jobs[Min(positions_of(sched.jobs, job_id))] =
                      [id |-> job_id, trigger |-> trigger,
                       next_run_time |-> get_next_fire_time(trigger, t)]])

\* an update that installs the trigger before it validates the fields
update_schedule_installing_first(sched, cron_expression, t) ==
    LET cron_parts == split(cron_expression)
    IN IF Len(cron_parts) < 5
       THEN [raised |-> Exc("ValueError", "Cron expression must have at least 5 parts"),
             value |-> sched]
       ELSE IF CronTriggerRaises(cron_parts)
       THEN [raised |-> Exc("ValueError", "Invalid cron expression: unrecognized field"),
             value |-> IF sched.running
                       THEN [sched EXCEPT !.jobs[1].trigger = CronTrigger(cron_parts)]
                       ELSE sched]
       ELSE IF sched.running
            THEN [raised |-> reschedule_job(sched, CronTrigger(cron_parts), t).raised,
                  value |-> IF reschedule_job(sched, CronTrigger(cron_parts), t).raised = None
                            THEN reschedule_job(sched, CronTrigger(cron_parts), t).value
                            ELSE sched]
            ELSE [raised |-> None, value |-> sched]

\* AnalysisScheduler.update_schedule at time t: what it raises, None if it
\* returns, and the scheduler it leaves
update_schedule(sched, cron_expression, t) ==
    LET cron_parts == split(cron_expression)
    IN IF Len(cron_parts) < 5
       THEN [raised |-> Exc("ValueError", "Cron expression must have at least 5 parts"),
             value |-> sched]
       ELSE IF CronTriggerRaises(cron_parts)
       THEN [raised |-> Exc("ValueError", "Invalid cron expression: unrecognized field"),
             value |-> sched]
       ELSE IF sched.running
            THEN [raised |-> reschedule_job(sched, CronTrigger(cron_parts), t).raised,
                  value |-> IF reschedule_job(sched, CronTrigger(cron_parts), t).raised = None
                            THEN reschedule_job(sched, CronTrigger(cron_parts), t).value
                            ELSE sched]
            ELSE [raised |-> None, value |-> sched]

(***************************************************************************)
(* The stages of a pipeline execution, each the return of one await.       *)
(***************************************************************************)
\* CatchHTTPError without the except clause: the exception goes on
PropagateHTTPError(outcome, utcnow) == outcome

\* try: await fetcher.fetch_holdings()  except httpx.HTTPError: mock
CatchHTTPError(outcome, utcnow) ==
    IF outcome.raised # None /\ IsHTTPError(outcome.raised)
    THEN [raised |-> None, value |-> get_mock_holdings(utcnow)]
    ELSE outcome

\* what fetch_holdings may do in this world
EndpointOutcomes(utcnow) ==
    { o \in FetchOutcomes(utcnow) : o.raised = None \/ o.raised.type \in Market.endpoint }

\* the pipeline goes on after fetch_holdings: what the endpoint did
FetchEvent(fetched) == Event("fetch_holdings", None, fetched, None)

\* 1. Fetch holdings
FetchHoldingsReturns(run) ==
    /\ run.pc = "fetch_holdings"
    /\ \E fetched \in EndpointOutcomes(now) :
          LET outcome == CatchHTTPError(fetched, now)
          IN IF outcome.raised # None
             THEN Fail(run, outcome.raised)
             ELSE /\ runs' = Moved(run, [run EXCEPT !.holdings_response = outcome.value,
                                                    !.pc = "analyze_holdings"])
                  /\ last_event' = FetchEvent(fetched)
                  /\ UNCHANGED << analysis_in_progress, latest_analysis, scheduler >>

\* 2. Analyze performance; 3. Get symbols
AnalyzeHoldingsReturns(run) ==
    /\ run.pc = "analyze_holdings"
    /\ LET performance == analyze_holdings(run.holdings_response.holdings, Market.info)
           got == [run EXCEPT !.performance = performance,
                              !.fluctuations = get_fluctuation_alerts(performance)]
       IN Continue(run, [got EXCEPT !.pc = AfterPerformance(got)])

all_symbols(run) ==
    [i \in 1..Len(run.holdings_response.holdings) |-> run.holdings_response.holdings[i].symbol]

fluctuation_symbols(run) ==
    [i \in 1..Len(run.fluctuations) |-> run.fluctuations[i].symbol]

\* 4. Collect earnings
GetEarningsReturns(run) ==
    /\ run.pc = "get_earnings"
    /\ LET call == get_earnings_for_symbols(run.earnings_collector, all_symbols(run),
                                            Market.calendar, now)
           got == [run EXCEPT !.earnings = call.result,
                              !.earnings_collector = call.collector]
       IN Continue(run, [got EXCEPT !.pc = AfterEarnings(got)])

\* 5. Collect news for high-fluctuation stocks
GetNewsReturns(run) ==
    /\ run.pc = "get_news"
    /\ LET call == get_news_for_high_fluctuation(run.news_collector,
                                                 fluctuation_symbols(run), Market.news, now)
           got == [run EXCEPT !.news = call.result,
                              !.news_collector = call.collector]
       IN Continue(run, [got EXCEPT !.pc = AfterNews(got)])

\* 6. Generate AI summary
GenerateSummaryReturns(run) ==
    /\ run.pc = "generate_summary"
    /\ \E outcome \in ProviderOutcomes :
          Continue(run, [run EXCEPT
             !.summary = generate_summary(settings, run.performance, run.fluctuations,
                                          run.earnings, run.news, outcome, now),
             !.pc = "finish"])

\* a stage after the first raises past its own handlers
StageRaises(run) ==
    /\ run.pc \in {"analyze_holdings", "get_earnings", "get_news", "generate_summary"}
    /\ Fail(run, StageException(run.pc))

(***************************************************************************)
(* The specification of the analysis pipeline.                             *)
(***************************************************************************)
\* What is fixed when the process starts: the settings it loads, the name
\* under which the agent router is imported, the market data it will see.
Deployment(key, registered, market) ==
    [settings |-> Settings(key), agent_module_registered |-> registered, world |-> market]

Deployments ==
    { Deployment("", TRUE, "active"),
      Deployment("sk-key", TRUE, "reachable"),
      Deployment("", FALSE, "quiet") }

\* The process after startup: main.py lifespan has started the scheduler
\* (scheduler_enabled), no request was served yet.
Init ==
    /\ analysis_in_progress = FALSE
    /\ latest_analysis = None
    /\ runs = EmptyBag
    /\ last_event = None
    /\ collectors = [earnings |-> EarningsCollector, news |-> NewsCollector]
    /\ now = 0
    /\ \E d \in Deployments :
          /\ settings = d.settings
          /\ agent_module_registered = d.agent_module_registered
          /\ world = d.world
          /\ scheduler = IF d.settings.scheduler_enabled
                         THEN scheduler_start(NewScheduler, now) ELSE NewScheduler
    /\ input = None
    /\ pool = None

Environment == << settings, agent_module_registered, world, now, collectors, input, pool >>

Next ==
    \/ \E request \in AnalyzeRequests : AnalyzeAdmit(request) /\ UNCHANGED Environment
    \/ \E request \in AnalyzeRequests : AnalyzeReject(request) /\ UNCHANGED Environment
    \/ CronFire /\ UNCHANGED Environment
    \/ TriggerAnalysis /\ UNCHANGED Environment
    \/ \E run \in Running : FetchHoldingsReturns(run) /\ UNCHANGED Environment
    \/ \E run \in Running : AnalyzeHoldingsReturns(run) /\ UNCHANGED Environment
    \/ \E run \in Running : GetEarningsReturns(run) /\ UNCHANGED Environment
    \/ \E run \in Running : GetNewsReturns(run) /\ UNCHANGED Environment
    \/ \E run \in Running : GenerateSummaryReturns(run) /\ UNCHANGED Environment
    \/ \E run \in Running : StageRaises(run) /\ UNCHANGED Environment

Spec == Init /\ [][Next]_vars

(***************************************************************************)
(* The read endpoints of routers/agent.py and the on-demand endpoints of   *)
(* routers/holdings.py, served while the pipeline runs.                    *)
(***************************************************************************)
\* word in str(e).lower(), on the messages of the model
contains(text, word) ==
    CASE word = "connect" -> text \in {"All connection attempts failed"}
      [] word = "timeout" -> text \in {"Request timeout"}

\* what a read endpoint answers; nothing else changes
Answer(kind, status_code, body) ==
    /\ last_event' = Event(kind, Some(status_code), body, None)
    /\ UNCHANGED << analysis_in_progress, latest_analysis, runs, scheduler >>

\* GET /api/agent/summary
GetLatestSummary ==
    Answer("get_latest_summary", 200,
           IF latest_analysis # None /\ latest_analysis.summary # None
           THEN latest_analysis.summary ELSE None)

\* GET /api/agent/fluctuations
GetFluctuations ==
    Answer("get_fluctuations", 200,
           IF latest_analysis # None
           THEN [fluctuations |-> latest_analysis.fluctuation_alerts,
                 count |-> Len(latest_analysis.fluctuation_alerts)]
           ELSE [fluctuations |-> << >>, count |-> 0])

\* GET /api/agent/earnings
GetEarnings ==
    Answer("get_earnings", 200,
           IF latest_analysis # None
           THEN [earnings |-> latest_analysis.upcoming_earnings,
                 count |-> Len(latest_analysis.upcoming_earnings)]
           ELSE [earnings |-> << >>, count |-> 0])

\* GET /api/agent/news
GetNews ==
    Answer("get_news", 200,
           IF latest_analysis # None
           THEN [news |-> latest_analysis.news_items,
                 count |-> Len(latest_analysis.news_items)]
           ELSE [news |-> << >>, count |-> 0])

\* a status endpoint that also resets the flag
GetAnalysisStatusResetting ==
    /\ last_event' = Event("get_analysis_status", Some(200),
                           [in_progress |-> FALSE,
                            has_analysis |-> latest_analysis # None,
                            last_analyzed |-> IF latest_analysis # None
                                              THEN Some(latest_analysis.analyzed_at) ELSE None,
                            holdings_count |-> IF latest_analysis # None
                                               THEN latest_analysis.holdings_count ELSE 0],
                           None)
    /\ analysis_in_progress' = FALSE
    /\ UNCHANGED << latest_analysis, runs, scheduler >>

\* GET /api/agent/status
GetAnalysisStatus ==
    Answer("get_analysis_status", 200,
           [in_progress |-> analysis_in_progress,
            has_analysis |-> latest_analysis # None,
            last_analyzed |-> IF latest_analysis # None
                              THEN Some(latest_analysis.analyzed_at) ELSE None,
            holdings_count |-> IF latest_analysis # None
                               THEN latest_analysis.holdings_count ELSE 0])

\* GET /api/holdings
GetHoldings(use_mock) ==
    IF use_mock THEN Answer("get_holdings", 200, get_mock_holdings(now))
    ELSE \E fetched \in EndpointOutcomes(now) :
            IF fetched.raised = None THEN Answer("get_holdings", 200, fetched.value)
            ELSE IF IsHTTPError(fetched.raised)
            THEN (IF contains(fetched.raised.msg, "connect")
                     \/ contains(fetched.raised.msg, "timeout")
                  THEN Answer("get_holdings", 200, get_mock_holdings(now))
                  ELSE Answer("get_holdings", 502,
                              [detail |-> "Failed to fetch holdings: " \o fetched.raised.msg]))
            ELSE Answer("get_holdings", 500,
                        [detail |-> "Error fetching holdings: " \o fetched.raised.msg])

\* GET /api/holdings/performance
GetHoldingsPerformance(use_mock) ==
    \E fetched \in IF use_mock THEN {Return(get_mock_holdings(now))}
                    ELSE EndpointOutcomes(now) :
       LET outcome == CatchHTTPError(fetched, now)
       IN IF outcome.raised # None
          THEN Answer("get_holdings_performance", 500,
                      [detail |-> "Error analyzing holdings: " \o outcome.raised.msg])
          ELSE Answer("get_holdings_performance", 200,
                      [holdings |-> analyze_holdings(outcome.value.holdings, Market.info)])

\* GET /api/holdings/fluctuations
GetHoldingsFluctuations(use_mock) ==
    \E fetched \in IF use_mock THEN {Return(get_mock_holdings(now))}
                    ELSE EndpointOutcomes(now) :
       LET outcome == CatchHTTPError(fetched, now)
           alerts == get_fluctuation_alerts(
                         analyze_holdings(outcome.value.holdings, Market.info))
       IN IF outcome.raised # None
          THEN Answer("get_holdings_fluctuations", 500,
                      [detail |-> "Error getting fluctuations: " \o outcome.raised.msg])
          ELSE Answer("get_holdings_fluctuations", 200,
                      [fluctuations |-> alerts, count |-> Len(alerts),
                       threshold |-> fluctuation_threshold])

\* the pipeline and the read endpoints, in any interleaving
NextReads ==
    \/ Next
    \/ GetLatestSummary /\ UNCHANGED Environment
    \/ GetFluctuations /\ UNCHANGED Environment
    \/ GetEarnings /\ UNCHANGED Environment
    \/ GetNews /\ UNCHANGED Environment
    \/ GetAnalysisStatus /\ UNCHANGED Environment
    \/ \E use_mock \in BOOLEAN : GetHoldings(use_mock) /\ UNCHANGED Environment
    \/ \E use_mock \in BOOLEAN : GetHoldingsPerformance(use_mock) /\ UNCHANGED Environment
    \/ \E use_mock \in BOOLEAN : GetHoldingsFluctuations(use_mock) /\ UNCHANGED Environment

\* The process after startup with a provider key, behind a holdings
\* endpoint that answers.
InitReads == Init /\ world = "reachable"

SpecReads == InitReads /\ [][NextReads]_vars

(***************************************************************************)
(* The collectors on their own: one EarningsCollector and one              *)
(* NewsCollector that a caller keeps and calls again while time passes.    *)
(***************************************************************************)
\* the symbol lists the caller passes: two orders of one set, and others
EarningsSymbolLists ==
    { <<"AAPL", "MSFT">>, <<"MSFT", "AAPL">>, <<"TSLA">> }

NewsSymbolLists ==
    { <<"AAPL", "TSLA">>, <<"TSLA", "AAPL">> }

\* the max_per_symbol values the caller passes: the default and the value
\* get_news_for_high_fluctuation uses
MaxPerSymbolValues == {5, 3}

\* A call of a collector as seen from outside: its arguments, the symbols it
\* looked up one by one, and what it returned.
CallEvent(kind, symbols, max_per_symbol, lookups, result) ==
    [kind |-> kind, symbols |-> symbols, max_per_symbol |-> max_per_symbol,
     lookups |-> lookups, result |-> result]

Pipeline == << analysis_in_progress, latest_analysis, runs, scheduler,
               settings, agent_module_registered, world, input, pool >>

\* await collector.get_earnings_for_symbols(symbols)
CollectEarnings(symbols) ==
    LET call == get_earnings_for_symbols(collectors.earnings, symbols, Market.calendar, now)
    IN /\ collectors' = [collectors EXCEPT !.earnings = call.collector]
       /\ last_event' = CallEvent("get_earnings_for_symbols", symbols, None,
                                  call.lookups, call.result)
       /\ UNCHANGED << Pipeline, now >>

\* await collector.get_news_for_symbols(symbols, max_per_symbol)
CollectNews(symbols, max_per_symbol) ==
    LET call == get_news_for_symbols(collectors.news, symbols, max_per_symbol,
                                     Market.news, now)
    IN /\ collectors' = [collectors EXCEPT !.news = call.collector]
       /\ last_event' = CallEvent("get_news_for_symbols", symbols, Some(max_per_symbol),
                                  call.lookups, call.result)
       /\ UNCHANGED << Pipeline, now >>

\* the pages the earnings calendar site may serve
ScrapedPages ==
    { PageRaises,
      Page(None),
      Page(<< << "Symbol", "Date", "Company" >>,
              << "aapl", DateText(1, 1, 1970), "Apple Inc." >>,
              << "MSFT", PlainText, "Microsoft Corporation" >>,
              << "XYZ", DateText(1, 5, 1970), "Xyz Corp." >>,
              << "MSFT" >>,
              << "MSFT", DateText(1, 5, 1970), "Microsoft Corporation" >>,
              << "Tsla", DateText(2, 30, 1970), "Tesla Inc." >> >>),
      Page(<< << "Symbol", "Date", "Company" >>,
              << "TSLA", DateText(1, 31, 1970), "Tesla Inc." >>,
              << "AAPL", DateText(12, 31, 1969), "Apple Inc." >>,
              << "MSFT", DateText(2, 15, 1970), "Microsoft Corporation" >> >>) }

\* await collector.scrape_nasdaq_earnings(symbols)
ScrapeEarnings(symbols, page) ==
    /\ last_event' = CallEvent("scrape_nasdaq_earnings", symbols, None, <<>>,
                               scrape_nasdaq_earnings(symbols, page, now))
    /\ UNCHANGED << Pipeline, collectors, now >>

\* EarningsCollector.clear_cache()
ClearEarningsCache ==
    /\ collectors' = [collectors EXCEPT !.earnings = earnings_clear_cache(@)]
    /\ last_event' = CallEvent("earnings.clear_cache", <<>>, None, <<>>, <<>>)
    /\ UNCHANGED << Pipeline, now >>

\* NewsCollector.clear_cache()
ClearNewsCache ==
    /\ collectors' = [collectors EXCEPT !.news = news_clear_cache(@)]
    /\ last_event' = CallEvent("news.clear_cache", <<>>, None, <<>>, <<>>)
    /\ UNCHANGED << Pipeline, now >>

\* The instants at which the caller calls, in ticks: the start, two around
\* the expiry of a news entry stored at the start, three around the expiry
\* of an earnings entry stored at the start.
Instants == {0, 1, 2, 11, 12, 13}

\* time passes between two calls
Tick(instant) ==
    /\ now < instant * TickSeconds
    /\ now' = instant * TickSeconds
    /\ last_event' = None
    /\ UNCHANGED << Pipeline, collectors >>

InitCollector ==
    /\ analysis_in_progress = FALSE
    /\ latest_analysis = None
    /\ runs = EmptyBag
    /\ last_event = None
    /\ collectors = [earnings |-> EarningsCollector, news |-> NewsCollector]
    /\ scheduler = NewScheduler
    /\ settings = Settings("")
    /\ agent_module_registered = TRUE
    /\ world = "active"
    /\ now = 0
    /\ input = None
    /\ pool = None

NextCollector ==
    \/ \E symbols \in EarningsSymbolLists : CollectEarnings(symbols)
    \/ \E symbols \in NewsSymbolLists, max_per_symbol \in MaxPerSymbolValues :
          CollectNews(symbols, max_per_symbol)
    \/ \E symbols \in EarningsSymbolLists, page \in ScrapedPages :
          ScrapeEarnings(symbols, page)
    \/ ClearEarningsCache
    \/ ClearNewsCache
    \/ \E instant \in Instants : Tick(instant)

SpecCollector == InitCollector /\ [][NextCollector]_vars

(***************************************************************************)
(* The same collectors called for symbols whose lookups all fail, and for  *)
(* one whose lookups succeed.                                              *)
(***************************************************************************)
\* the symbol lists the caller passes: one symbol whose lookups raise, and
\* one symbol with an upcoming date and news
FailingSymbolLists == { <<"NVDA">>, <<"MSFT">> }

NextFailing ==
    \/ \E symbols \in FailingSymbolLists : CollectEarnings(symbols)
    \/ \E symbols \in FailingSymbolLists : CollectNews(symbols, 3)
    \/ ClearEarningsCache
    \/ ClearNewsCache
    \/ \E instant \in Instants : Tick(instant)

SpecFailing == InitCollector /\ [][NextFailing]_vars

(***************************************************************************)
(* Analysis runs one after the other while time passes: the process of     *)
(* Spec behind a holdings endpoint that always answers, with a log of the  *)
(* calls the runs make on their collectors.  A run starts when none is in  *)
(* flight, and time passes between the runs.                               *)
(***************************************************************************)
\* the calls on collectors after which no further run starts
MaxCalls == 3

\* the instants at which runs start and stages return, in ticks: within the
\* time to live of a news entry stored at the start, and past it
RepeatInstants == {1, 2}

\* One call a run made on one of its collectors: the method, the cache key
\* of the symbols, the time, the symbols looked up one by one, and whether
\* the run was asked to force a refresh.
CallEntry(method, key, at, lookups, force_refresh) ==
    [method |-> method, key |-> key, at |-> at, lookups |-> lookups,
     force_refresh |-> force_refresh]

ForceRefresh(run) == run.kind = "analyze" /\ run.request.force_refresh

Kept == << settings, agent_module_registered, world, now, collectors, pool >>

\* the request bodies of the runs: the default and a forced refresh
RepeatRequests == { r \in AnalyzeRequests : r.include_news /\ r.include_earnings }

\* POST /api/agent/analyze, admitted
RepeatAdmit(request) ==
    /\ Len(input) < MaxCalls
    /\ runs = EmptyBag
    /\ AnalyzeAdmit(request)
    /\ input' = IF request.force_refresh
                THEN Append(input, CallEntry("clear_cache", "", now, <<>>, TRUE))
                ELSE input
    /\ UNCHANGED Kept

\* the cron job fires, or POST /api/scheduler/trigger
RepeatSchedulerRun ==
    /\ Len(input) < MaxCalls
    /\ runs = EmptyBag
    /\ (CronFire \/ TriggerAnalysis)
    /\ UNCHANGED Environment

\* 4. Collect earnings
RepeatEarnings(run) ==
    /\ GetEarningsReturns(run)
    /\ input' = Append(input,
                   CallEntry("get_earnings_for_symbols",
                             earnings_cache_key(all_symbols(run)), now,
                             get_earnings_for_symbols(run.earnings_collector, all_symbols(run),
                                                      Market.calendar, now).lookups,
                             ForceRefresh(run)))
    /\ UNCHANGED Kept

\* 5. Collect news for high-fluctuation stocks
RepeatNews(run) ==
    /\ GetNewsReturns(run)
    /\ input' = Append(input,
                   CallEntry("get_news_for_symbols",
                             news_cache_key(fluctuation_symbols(run), 3), now,
                             get_news_for_high_fluctuation(run.news_collector,
                                                           fluctuation_symbols(run),
                                                           Market.news, now).lookups,
                             ForceRefresh(run)))
    /\ UNCHANGED Kept

\* time passes between two runs
RepeatTick(instant) == runs = EmptyBag /\ Tick(instant)

InitRepeat == Init /\ world = "reachable"

NextRepeat ==
    \/ \E request \in RepeatRequests : RepeatAdmit(request)
    \/ \E request \in RepeatRequests : AnalyzeReject(request) /\ UNCHANGED Environment
    \/ RepeatSchedulerRun
    \/ \E run \in Running : FetchHoldingsReturns(run) /\ UNCHANGED Environment
    \/ \E run \in Running : AnalyzeHoldingsReturns(run) /\ UNCHANGED Environment
    \/ \E run \in Running : RepeatEarnings(run)
    \/ \E run \in Running : RepeatNews(run)
    \/ \E run \in Running : GenerateSummaryReturns(run) /\ UNCHANGED Environment
    \/ \E run \in Running : StageRaises(run) /\ UNCHANGED Environment
    \/ \E instant \in RepeatInstants : RepeatTick(instant)

SpecRepeat == InitRepeat /\ [][NextRepeat]_vars

(***************************************************************************)
(* The performance analyzer on its own: a caller holds a list of holdings  *)
(* and the quotes yfinance serves, evaluates the holdings and derives the  *)
(* fluctuation alerts from the records (routers/holdings.py, agent.py and  *)
(* jobs.py all call the two in this order).                                *)
(***************************************************************************)
MaxHoldings == 3

\* the holdings a list is made of, one per symbol
AnalyzerHoldings ==
    { Holding("AAPL", "Apple Inc.", 100, Some(150)),
      Holding("GOOGL", "", 25, None),
      Holding("MSFT", "Microsoft Corporation", 0, Some(350)),
      Holding("NVDA", "NVIDIA Corporation", 40, Some(500)),
      Holding("TSLA", "Tesla Inc.", 30, Some(200)) }

\* all lists of at most n elements of a set
RECURSIVE ListsUpTo(_, _)
ListsUpTo(set, n) ==
    IF n = 0 THEN { <<>> }
    ELSE LET shorter == ListsUpTo(set, n - 1)
         IN shorter \cup { Append(l, x) : l \in { l \in shorter : Len(l) = n - 1 }, x \in set }

\* What yfinance serves.  The first book has two movers of equal size and
\* opposite direction, a larger one, a quote without previous close and a
\* lookup that raises; the second has moves of exactly the threshold and
\* just below it in both directions and a current price of 0; the third
\* has a previous close of 0 and quotes that carry only the regularMarket*
\* fields.
QuoteBooks ==
    { [s \in Symbols |->
         CASE s = "AAPL" -> Info(Some(106), Some(100), Some(5000))
           [] s = "GOOGL" -> Info(Some(140), None, None)
           [] s = "MSFT" -> Info(Some(94), Some(100), None)
           [] s = "NVDA" -> InfoRaises
           [] s = "TSLA" -> Info(Some(110), Some(100), Some(7000))],
      [s \in Symbols |->
         CASE s = "AAPL" -> Info(Some(105), Some(100), None)
           [] s = "GOOGL" -> Info(Some(0), Some(100), None)
           [] s = "MSFT" -> Info(Some(104), Some(100), None)
           [] s = "NVDA" -> Info(Some(95), Some(100), None)
           [] s = "TSLA" -> Info(Some(96), Some(100), None)],
      [s \in Symbols |->
         CASE s = "AAPL" -> [Info(Some(50), Some(0), None)
                               EXCEPT !.regularMarketPreviousClose = Some(0)]
           [] s = "GOOGL" -> [Info(None, None, None)
                               EXCEPT !.regularMarketPrice = Some(47),
                                      !.regularMarketPreviousClose = Some(50)]
           [] s = "MSFT" -> Info(Some(100), Some(100), None)
           [] s = "NVDA" -> Info(None, Some(100), None)
           [] s = "TSLA" -> [Info(Some(53), Some(0), None)
                               EXCEPT !.regularMarketPreviousClose = Some(50)]] }

\* the symbols whose lookup may raise whatever the book holds, and the
\* book with the lookups of some of them raising
FailingSets == SUBSET {"AAPL", "MSFT", "NVDA"}

WithFailures(book, failing) ==
    [s \in Symbols |-> IF s \in failing THEN InfoRaises ELSE book[s]]

\* A call of a function as seen from outside: its arguments and what it
\* returned.
Applied(kind, args, result) == [kind |-> kind, args |-> args, result |-> result]

Fixed == << analysis_in_progress, latest_analysis, runs, collectors, scheduler,
            settings, agent_module_registered, world, now, input, pool >>

\* performance = await analyzer.analyze_holdings(holdings)
EvaluateHoldings ==
    /\ last_event = None
    /\ last_event' = Applied("analyze_holdings", input,
                             analyze_holdings(input.holdings, input.infos))
    /\ UNCHANGED Fixed

\* alerts = analyzer.get_fluctuation_alerts(performance.holdings)
DeriveAlerts ==
    /\ IsEvent(last_event, "analyze_holdings")
    /\ last_event' = Applied("get_fluctuation_alerts", last_event.result,
                             get_fluctuation_alerts(last_event.result))
    /\ UNCHANGED Fixed

InitAnalyzer ==
    /\ analysis_in_progress = FALSE
    /\ latest_analysis = None
    /\ runs = EmptyBag
    /\ last_event = None
    /\ collectors = [earnings |-> EarningsCollector, news |-> NewsCollector]
    /\ scheduler = NewScheduler
    /\ settings = Settings("")
    /\ agent_module_registered = TRUE
    /\ world = "quiet"
    /\ now = 0
    /\ pool = None
    /\ input \in [holdings : ListsUpTo(AnalyzerHoldings, MaxHoldings),
                  infos : { WithFailures(book, failing) :
                              book \in QuoteBooks, failing \in FailingSets }]

NextAnalyzer ==
    \/ EvaluateHoldings
    \/ DeriveAlerts

SpecAnalyzer == InitAnalyzer /\ [][NextAnalyzer]_vars

(***************************************************************************)
(* One collect call of a new collector: a caller passes a list of symbols  *)
(* while the lookups of some symbols fail.                                 *)
(***************************************************************************)
\* the longest list of symbols the caller passes
MaxSymbols == 3

\* What yfinance serves to the lookups of the call.  Two symbols share an
\* earnings date, one date is beyond the window, one symbol has no date and
\* one lookup always raises; the feeds have more items than max_per_symbol,
\* items without publish time or with publish time 0, and equal times.
BatchCalendar ==
    [s \in Symbols |->
       CASE s = "AAPL" -> Calendar(Some(DaySeconds(10)))
         [] s = "GOOGL" -> Calendar(Some(DaySeconds(10)))
         [] s = "MSFT" -> Calendar(Some(DaySeconds(3) + 3600))
         [] s = "NVDA" -> CalendarRaises
         [] s = "TSLA" -> Calendar(Some(DaySeconds(45)))]

BatchFeeds ==
    [s \in Symbols |->
       CASE s = "AAPL" -> Feed(<< FeedItem("a1", Some(500)), FeedItem("a2", None),
                                 FeedItem("a3", Some(700)), FeedItem("a4", Some(0)) >>)
         [] s = "GOOGL" -> Feed(<< FeedItem("g1", None), FeedItem("g2", Some(600)) >>)
         [] s = "MSFT" -> Feed(<< FeedItem("m1", Some(600)), FeedItem("m2", Some(500)) >>)
         [] s = "NVDA" -> FeedRaises
         [] s = "TSLA" -> Feed(<<>>)]

\* the symbols whose lookups fail in a call besides those that always do
BatchFailing == SUBSET {"AAPL", "GOOGL", "MSFT"}

\* what the lookups see when those of the failing symbols raise
Raising(book, failing, raises) ==
    [s \in Symbols |-> IF s \in failing THEN raises ELSE book[s]]

\* await EarningsCollector().get_earnings_for_symbols(symbols)
BatchEarnings ==
    /\ last_event' = CallEvent("get_earnings_for_symbols", input.symbols, None,
                               input.symbols,
                               get_earnings_for_symbols(
                                   EarningsCollector, input.symbols,
                                   Raising(BatchCalendar, input.failing, CalendarRaises),
                                   now).result)
    /\ UNCHANGED Fixed

\* await NewsCollector().get_news_for_symbols(symbols, max_per_symbol)
BatchNews(max_per_symbol) ==
    /\ last_event' = CallEvent("get_news_for_symbols", input.symbols,
                               Some(max_per_symbol), input.symbols,
                               get_news_for_symbols(
                                   NewsCollector, input.symbols, max_per_symbol,
                                   Raising(BatchFeeds, input.failing, FeedRaises),
                                   now).result)
    /\ UNCHANGED Fixed

InitBatch ==
    /\ analysis_in_progress = FALSE
    /\ latest_analysis = None
    /\ runs = EmptyBag
    /\ last_event = None
    /\ collectors = [earnings |-> EarningsCollector, news |-> NewsCollector]
    /\ scheduler = NewScheduler
    /\ settings = Settings("")
    /\ agent_module_registered = TRUE
    /\ world = "quiet"
    /\ now = 0
    /\ pool = None
    /\ input \in [symbols : ListsUpTo(Symbols, MaxSymbols), failing : BatchFailing]

NextBatch ==
    \/ BatchEarnings
    \/ \E max_per_symbol \in MaxPerSymbolValues \cup {1} : BatchNews(max_per_symbol)

SpecBatch == InitBatch /\ [][NextBatch]_vars

(***************************************************************************)
(* The holdings parser on its own: the endpoint serves the same items in   *)
(* each of the shapes the parser accepts, and the caller parses them.      *)
(***************************************************************************)
MaxItems == 2

\* The items a payload is made of: two well-formed ones (one with an empty
\* symbol and a ticker, numbers as texts), one with candidates under
\* Symbol and Ticker only, one without any symbol whose shares are no
\* number, one whose shares are no number, one whose symbol is a number,
\* and one that is no dict.
PayloadItems ==
    { JDict(("symbol" :> JStr("aapl")) @@ ("shares" :> JNum(10)) @@ ("price" :> JNum(7))),
      JDict(("symbol" :> JStr("")) @@ ("ticker" :> JStr("MSFT"))
              @@ ("quantity" :> JStr("10")) @@ ("average_cost" :> JStr("7"))
              @@ ("name" :> JStr("Microsoft Corporation"))),
      JDict(("Ticker" :> JStr("NVDA")) @@ ("Symbol" :> JStr("Tsla"))),
      JDict(("name" :> JStr("Cash")) @@ ("symbol" :> JNull) @@ ("shares" :> JStr("abc"))),
      JDict(("symbol" :> JStr("TSLA")) @@ ("shares" :> JStr("abc"))),
      JDict(("symbol" :> JNum(123)) @@ ("shares" :> JNum(10))),
      JStr("n/a") }

\* the shapes of a payload: the items as a bare array, under one of the
\* four keys, or the one item itself
Shapes == { "array", "portfolio_holdings", "holdings", "data", "positions", "object" }

Payload(shape, items) ==
    CASE shape = "array" -> JList(items)
      [] shape = "object" -> items[1]
      [] OTHER -> JDict(shape :> JList(items))

\* the outcomes of the parses of the items so far, by shape
Parsed == IF last_event = None THEN <<>> ELSE last_event.result

\* holdings = self._parse_holdings(data), data of the given shape
ParseAs(shape) ==
    /\ shape \notin DOMAIN Parsed
    /\ shape = "object" => (Len(input) = 1 /\ input[1].type = "dict")
    /\ last_event' = Applied("_parse_holdings", input,
                             Parsed @@ (shape :> parse_holdings(Payload(shape, input))))
    /\ UNCHANGED Fixed

InitParser ==
    /\ analysis_in_progress = FALSE
    /\ latest_analysis = None
    /\ runs = EmptyBag
    /\ last_event = None
    /\ collectors = [earnings |-> EarningsCollector, news |-> NewsCollector]
    /\ scheduler = NewScheduler
    /\ settings = Settings("")
    /\ agent_module_registered = TRUE
    /\ world = "quiet"
    /\ now = 0
    /\ pool = None
    /\ input \in ListsUpTo(PayloadItems, MaxItems)

NextParser == \E shape \in Shapes : ParseAs(shape)

SpecParser == InitParser /\ [][NextParser]_vars

(***************************************************************************)
(* The parser of provider replies on its own: a caller holds the text of a *)
(* reply and parses it.                                                    *)
(***************************************************************************)
\* the longest reply, in lines
MaxLines == 4

\* The lines a reply is made of: plain text, the three headers, bullets of
\* each kind without and with a word the parser looks for, a blank line and
\* a sentence with the word summary.
ReplyLines ==
    { Line("", "Portfolio is stable.", {}),
      Line("", "Key Insights:", {"insight"}),
      Line("", "Recommendations:", {"recommendation"}),
      Line("", "Risk Factors:", {"risk"}),
      Line("-", "NVDA leads the gains", {}),
      Line("*", "Hold AAPL", {}),
      Line("*", "Reduce risk in TSLA", {"risk"}),
      Line("", "", {}),
      Line("", "In summary, hold.", {"summary"}) }

\* summary = self._parse_response(response)
ParseReply ==
    /\ last_event = None
    /\ last_event' = Applied("_parse_response", input,
                             parse_response(input, settings, now))
    /\ UNCHANGED Fixed

InitReply ==
    /\ analysis_in_progress = FALSE
    /\ latest_analysis = None
    /\ runs = EmptyBag
    /\ last_event = None
    /\ collectors = [earnings |-> EarningsCollector, news |-> NewsCollector]
    /\ scheduler = NewScheduler
    /\ settings = Settings("key")
    /\ agent_module_registered = TRUE
    /\ world = "quiet"
    /\ now = 0
    /\ pool = None
    /\ input \in ListsUpTo(ReplyLines, MaxLines)

NextReply == ParseReply

SpecReply == InitReply /\ [][NextReply]_vars

(***************************************************************************)
(* The scheduler endpoints on their own (routers/scheduler.py): a client   *)
(* starts and stops the scheduler and updates its cron expression.         *)
(***************************************************************************)
\* the expressions a client sends: of five valid fields (one with blanks
\* around the fields), of six fields, of fewer than five, and of five
\* fields one of which the trigger refuses
CronExpressions ==
    { "0 9,16 * * 1-5", "30 8 * * *", "  0  9 * * mon-fri ", "* * * * * 2026",
      "", "0 9 * *",
      "61 * * * *", "0 24 * * *", "0 9 0 * *", "0 9 * mon-fri *", "0 9 * * 7",
      "0 9 * * funday" }

\* the instants at which the process starts: midnight of Thursday 1 January
\* 1970, the same day at 09:00:00 and at 16:00:01, and the Saturday after
\* at 12:00
StartInstants == { 0, 9 * 3600, 16 * 3600 + 1, 2 * SecondsPerDay + 12 * 3600 }

Untouched == << analysis_in_progress, latest_analysis, runs, collectors,
                settings, agent_module_registered, world, now, pool >>

\* GET /api/scheduler/status
GetSchedulerStatus ==
    /\ last_event' = Event("get_scheduler_status", Some(200),
                           get_status(scheduler, settings), None)
    /\ UNCHANGED << scheduler, input >>
    /\ UNCHANGED Untouched

\* PUT /api/scheduler/cron; input is the expression of the latest update,
\* the empty text before the first
UpdateCron(cron_expression) ==
    LET call == update_schedule(scheduler, cron_expression, now)
    IN /\ input' = cron_expression
       /\ scheduler' = call.value
       /\ last_event' =
             IF call.raised = None
             THEN Event("update_cron", Some(200),
                        [status |-> "updated",
                         message |-> "Cron expression updated to: " \o cron_expression,
                         next_run |-> get_next_run_time(call.value)], None)
             ELSE IF call.raised.type = "ValueError"
             THEN Event("update_cron", Some(400),
                        [detail |-> "Invalid cron expression: " \o call.raised.msg], None)
             ELSE Event("update_cron", Some(500),
                        [detail |-> "Internal Server Error"], None)
       /\ UNCHANGED Untouched

\* POST /api/scheduler/start
StartScheduler ==
    /\ input' = input
    /\ scheduler' = scheduler_start(scheduler, now)
    /\ last_event' =
          IF scheduler.running
          THEN Event("start_scheduler", Some(200),
                     [status |-> "already_running",
                      message |-> "Scheduler is already running"], None)
          ELSE Event("start_scheduler", Some(200),
                     [status |-> "started", message |-> "Scheduler started successfully",
                      next_run |-> get_next_run_time(scheduler_start(scheduler, now))],
                     None)
    /\ UNCHANGED Untouched

\* POST /api/scheduler/stop
StopScheduler ==
    /\ input' = input
    /\ scheduler' = scheduler_stop(scheduler)
    /\ last_event' =
          IF ~scheduler.running
          THEN Event("stop_scheduler", Some(200),
                     [status |-> "already_stopped",
                      message |-> "Scheduler is not running"], None)
          ELSE Event("stop_scheduler", Some(200),
                     [status |-> "stopped",
                      message |-> "Scheduler stopped successfully"], None)
    /\ UNCHANGED Untouched

\* The process after startup at one of the instants, the scheduler started
\* by main.py lifespan if scheduler_enabled.
InitScheduler ==
    /\ analysis_in_progress = FALSE
    /\ latest_analysis = None
    /\ runs = EmptyBag
    /\ last_event = None
    /\ collectors = [earnings |-> EarningsCollector, news |-> NewsCollector]
    /\ agent_module_registered = TRUE
    /\ world = "quiet"
    /\ input = ""
    /\ pool = None
    /\ now \in StartInstants
    /\ settings \in { Settings(""), [Settings("") EXCEPT !.scheduler_enabled = FALSE] }
    /\ scheduler = IF settings.scheduler_enabled
                   THEN scheduler_start(NewScheduler, now) ELSE NewScheduler

NextScheduler ==
    \/ \E cron_expression \in CronExpressions : UpdateCron(cron_expression)
    \/ StartScheduler
    \/ StopScheduler
    \/ GetSchedulerStatus

SpecScheduler == InitScheduler /\ [][NextScheduler]_vars

(***************************************************************************)
(* The fan-out of one call of a service: analyze_holdings and the two      *)
(* get_..._for_symbols submit one lookup per item to the ThreadPoolExecutor *)
(* of the service and await asyncio.gather of the futures.                 *)
(***************************************************************************)
\* max_workers of the executors the services create
analyzer_max_workers == 10
earnings_max_workers == 5
news_max_workers == 5

\* how many more lookups a call dispatches than its executor has workers
ExtraLookups == 1

\* an executor that takes one worker more than it was given
ThreadPoolExecutorOversized(max_workers) ==
    [max_workers |-> max_workers + 1, threads |-> 0, queue |-> << >>, running |-> {}]

\* ThreadPoolExecutor(max_workers=...): no thread yet, an empty work queue;
\* running are the lookups its threads execute
ThreadPoolExecutor(max_workers) ==
    [max_workers |-> max_workers, threads |-> 0, queue |-> << >>, running |-> {}]

\* the executor each service creates in __init__
Executors ==
    [analyze_holdings |-> ThreadPoolExecutor(analyzer_max_workers),
     get_earnings_for_symbols |-> ThreadPoolExecutor(earnings_max_workers),
     get_news_for_symbols |-> ThreadPoolExecutor(news_max_workers)]

\* A call of the service with lookups items, of which the lookups in failing
\* fail inside their own handler: nothing submitted, nothing completed, not
\* returned; peak is the largest number of lookups that ran at once.
Call(service, lookups, failing) ==
    [service |-> service, executor |-> Executors[service], lookups |-> lookups,
     failing |-> failing, submitted |-> 0, results |-> << >>, returned |-> FALSE,
     peak |-> 0]

\* loop.run_in_executor(self._executor, lookup, item) for the next item:
\* submit() queues the work item and starts a thread unless a thread is idle
\* or max_workers threads exist
Submit ==
    /\ pool.submitted < pool.lookups
    /\ \E spawn \in BOOLEAN :
          /\ spawn => pool.executor.threads < pool.executor.max_workers
          /\ ~spawn => \/ pool.executor.threads = pool.executor.max_workers
                        \/ pool.executor.threads > Cardinality(pool.executor.running)
          /\ pool' = [pool EXCEPT
                        !.submitted = @ + 1,
                        !.executor.queue = Append(@, pool.submitted + 1),
                        !.executor.threads = IF spawn THEN @ + 1 ELSE @]
    /\ UNCHANGED last_event

\* a thread that executes nothing takes the next work item of the queue
StartLookup ==
    /\ pool.executor.queue # << >>
    /\ Cardinality(pool.executor.running) < pool.executor.threads
    /\ pool' = [pool EXCEPT
                  !.executor.queue = Tail(@),
                  !.executor.running = @ \cup {Head(pool.executor.queue)},
                  !.peak = IF Cardinality(pool.executor.running) + 1 > @
                           THEN Cardinality(pool.executor.running) + 1 ELSE @]
    /\ UNCHANGED last_event

\* a lookup returns: its result, or what its except clause returns
CompleteLookup(i) ==
    /\ i \in pool.executor.running
    /\ pool' = [pool EXCEPT
                  !.executor.running = @ \ {i},
                  !.results = @ @@ (i :> IF i \in pool.failing THEN "failed" ELSE "ok")]
    /\ UNCHANGED last_event

\* a gather that returns with the first result
GatherFirstCompleted ==
    /\ ~pool.returned
    /\ pool.submitted = pool.lookups
    /\ DOMAIN pool.results # {}
    /\ pool' = [pool EXCEPT !.returned = TRUE]
    /\ last_event' = Applied(pool.service, pool.lookups, pool.results)

\* await asyncio.gather(*tasks) returns: every future is done
Gather ==
    /\ ~pool.returned
    /\ pool.submitted = pool.lookups
    /\ DOMAIN pool.results = 1..pool.lookups
    /\ pool' = [pool EXCEPT !.returned = TRUE]
    /\ last_event' = Applied(pool.service, pool.lookups, pool.results)

\* A service about to dispatch the lookups of a call; the second, the last
\* or no lookup fails.
InitPool ==
    /\ analysis_in_progress = FALSE
    /\ latest_analysis = None
    /\ runs = EmptyBag
    /\ last_event = None
    /\ collectors = [earnings |-> EarningsCollector, news |-> NewsCollector]
    /\ scheduler = NewScheduler
    /\ settings = Settings("")
    /\ agent_module_registered = TRUE
    /\ world = "quiet"
    /\ now = 0
    /\ input = None
    /\ \E service \in DOMAIN Executors :
          \E failing \in { {}, {2, Executors[service].max_workers + ExtraLookups} } :
             pool = Call(service, Executors[service].max_workers + ExtraLookups, failing)

NextPool ==
    \/ Submit /\ UNCHANGED << analysis_in_progress, latest_analysis, runs, collectors, scheduler,
                            settings, agent_module_registered, world, now, input >>
    \/ StartLookup /\ UNCHANGED << analysis_in_progress, latest_analysis, runs, collectors, scheduler,
                            settings, agent_module_registered, world, now, input >>
    \/ \E i \in 1..pool.lookups : CompleteLookup(i) /\ UNCHANGED << analysis_in_progress, latest_analysis, runs, collectors, scheduler,
                            settings, agent_module_registered, world, now, input >>
    \/ Gather /\ UNCHANGED << analysis_in_progress, latest_analysis, runs, collectors, scheduler,
                            settings, agent_module_registered, world, now, input >>

SpecPool == InitPool /\ [][NextPool]_vars

(***************************************************************************)
(* Properties.                                                             *)
(***************************************************************************)

\* the latest step returned the response of an admitted /analyze execution
\* with this status
Returned(e, status) ==
    /\ IsEvent(e, "analyze")
    /\ e.status_code = Some(200)
    /\ e.body.status = status

\* the latest step ended an execution of _run_analysis
SchedulerEnded(e) == e # None /\ e.kind \in {"cron", "trigger"}
SchedulerCompleted(e) == SchedulerEnded(e) /\ e.log = Some("Analysis complete")

\* the latest step answered a request with 409
Rejected(e) == IsEvent(e, "analyze") /\ e.status_code = Some(409)

\* C1: at most one analysis run executes at any time: the runs started by
\* POST /analyze, by the cron job and by the manual trigger that have not
\* finished are never more than one.
C1_AtMostOneRun == BagCardinality(runs) <= 1

\* C1, the part of it the flag does enforce: /analyze executions exclude
\* each other.
C1_AtMostOneAnalyze == NumRunning({"analyze"}) <= 1

\* a scheduler run executing next to an /analyze run
C1_Overlap ==
    /\ NumRunning({"analyze"}) = 1
    /\ NumRunning({"cron", "trigger"}) >= 1

\* C2: a POST /analyze arriving while an /analyze run is Running starts no
\* run and is answered 409; the rejection leaves the flag set, the store as
\* it was, and the run in progress (all its locals, from which its result is
\* computed) as it was.
C2_ConflictRejected ==
    [][ /\ analysis_in_progress =>
               NumRunning({"analyze"})' <= NumRunning({"analyze"})
        /\ Rejected(last_event') =>
               /\ analysis_in_progress /\ analysis_in_progress'
               /\ latest_analysis' = latest_analysis
               /\ runs' = runs
               /\ NumRunning({"analyze"}) = 1 ]_vars

\* a request was just rejected while a run is past its first stage
C2_Witness ==
    /\ Rejected(last_event)
    /\ analysis_in_progress
    /\ \E run \in Running : run.kind = "analyze" /\ run.pc # "fetch_holdings"

\* C3: the flag is set exactly while an admitted /analyze run executes: the
\* step that ends the run, by its return or by an exception of any stage,
\* returns the flag to Idle, so the flag is never set with no run executing;
\* and a run in flight is always at a stage whose return or exception it
\* awaits.
C3_FlagReturnsToIdle ==
    /\ analysis_in_progress <=> NumRunning({"analyze"}) = 1
    /\ \A run \in Running :
          run.pc \in {"fetch_holdings", "analyze_holdings", "get_earnings",
                      "get_news", "generate_summary"}

\* a run has just ended in an error and the flag is clear
C3_Witness ==
    /\ Returned(last_event, "error")
    /\ ~analysis_in_progress
    /\ NumRunning({"analyze"}) = 0

\* a complete AnalysisResult: every field of the model present and typed
IsAnalysisResult(r) ==
    /\ DOMAIN r = {"summary", "fluctuation_alerts", "upcoming_earnings", "news_items",
                   "holdings_count", "analyzed_at", "status", "error"}
    /\ r.status \in {"success", "error"}
    /\ (r.status = "success") <=> (r.error = None)
    /\ r.holdings_count \in Nat
    /\ r.analyzed_at \in Nat
    /\ DOMAIN r.fluctuation_alerts = 1..Len(r.fluctuation_alerts)
    /\ DOMAIN r.upcoming_earnings = 1..Len(r.upcoming_earnings)
    /\ DOMAIN r.news_items = 1..Len(r.news_items)

\* C4: the store is empty or holds one complete AnalysisResult of a finished
\* run: it changes only in the step in which a run ends, and then to a
\* complete result that carries that run's holdings count and alerts; every
\* other step of a run in flight leaves readers the previous snapshot.
C4_StoreAtomic ==
    [][ latest_analysis' # latest_analysis =>
          /\ IsAnalysisResult(latest_analysis')
          /\ \E run \in Running :
                /\ runs' = Ended(run)
                /\ run.holdings_response # None
                /\ latest_analysis'.holdings_count = Len(run.holdings_response.holdings)
                /\ latest_analysis'.fluctuation_alerts =
                      get_fluctuation_alerts(
                          analyze_holdings(run.holdings_response.holdings, Market.info)) ]_vars

\* readers see the previous snapshot while a run that has already computed
\* other alerts is in flight
C4_Witness ==
    /\ latest_analysis # None
    /\ \E run \in Running :
          /\ run.pc \in {"get_earnings", "get_news", "generate_summary"}
          /\ run.fluctuations # latest_analysis.fluctuation_alerts

ConnectivityErrors == {"ConnectError", "ReadTimeout"}

MockSymbols == {"AAPL", "MSFT", "GOOGL", "TSLA", "NVDA"}

SymbolsOf(holdings) == { holdings[i].symbol : i \in 1..Len(holdings) }

\* the run holds the mock portfolio
UsesMock(run) ==
    /\ run.holdings_response # None
    /\ run.holdings_response.source = "mock"

C8_MockOnlyForConnectivity ==
    [][ ( /\ IsEvent(last_event', "fetch_holdings")
          /\ last_event'.body.raised # None ) =>
            last_event'.body.raised.type \in ConnectivityErrors ]_vars

\* the endpoint has just answered 500 and the run goes on with mock data
C8_MockOnStatusError ==
    /\ IsEvent(last_event, "fetch_holdings")
    /\ last_event.body.raised # None
    /\ last_event.body.raised.type = "HTTPStatusError"
    /\ \E run \in Running : run.pc = "analyze_holdings" /\ UsesMock(run)

\* the set of symbols of a list
SymbolSet(symbols) == { symbols[i] : i \in 1..Len(symbols) }

\* the cache has an entry under this key whose time to live has not passed
Live(cache, key, t) == key \in DOMAIN cache /\ t < cache[key].expires

\* a call of get_earnings_for_symbols finds a live entry stored for its
\* symbol set, in whatever order that call passed it
EarningsEntryFor(symbols) ==
    \E other \in EarningsSymbolLists :
        /\ SymbolSet(other) = SymbolSet(symbols)
        /\ Live(collectors.earnings.cache, earnings_cache_key(other), now)

\* the same for get_news_for_symbols, which stores per max_per_symbol
NewsEntryFor(symbols, max_per_symbol) ==
    \E other \in NewsSymbolLists :
        /\ SymbolSet(other) = SymbolSet(symbols)
        /\ Live(collectors.news.cache, news_cache_key(other, max_per_symbol), now)

\* C9: for one collector, lists that are permutations of one symbol set have
\* one cache key.  A call that finds an entry stored for its symbol set less
\* than the time to live ago looks no symbol up and returns the stored list;
\* a call that finds none, because none was stored, it expired or
\* clear_cache() removed it, looks every symbol up again and stores what it
\* returns for the time to live.  Between calls an entry stays until it
\* expires or the cache is cleared.
C9_CacheKeyIgnoresOrder ==
    [][ /\ IsEvent(last_event', "get_earnings_for_symbols") =>
            LET e == last_event'
                cache == collectors.earnings.cache
                key == earnings_cache_key(e.symbols)
            IN /\ \A other \in EarningsSymbolLists :
                     SymbolSet(other) = SymbolSet(e.symbols) =>
                        earnings_cache_key(other) = key
               /\ EarningsEntryFor(e.symbols) =>
                     /\ e.lookups = <<>>
                     /\ e.result = cache[key].value
                     /\ collectors' = collectors
               /\ ~EarningsEntryFor(e.symbols) =>
                     /\ e.lookups = e.symbols
                     /\ collectors'.earnings.cache[key] =
                           [value |-> e.result, expires |-> now + earnings_ttl]
        /\ IsEvent(last_event', "get_news_for_symbols") =>
            LET e == last_event'
                cache == collectors.news.cache
                key == news_cache_key(e.symbols, Val(e.max_per_symbol))
            IN /\ \A other \in NewsSymbolLists :
                     SymbolSet(other) = SymbolSet(e.symbols) =>
                        news_cache_key(other, Val(e.max_per_symbol)) = key
               /\ NewsEntryFor(e.symbols, Val(e.max_per_symbol)) =>
                     /\ e.lookups = <<>>
                     /\ e.result = cache[key].value
                     /\ collectors' = collectors
               /\ ~NewsEntryFor(e.symbols, Val(e.max_per_symbol)) =>
                     /\ e.lookups = e.symbols
                     /\ collectors'.news.cache[key] =
                           [value |-> e.result, expires |-> now + news_ttl]
        /\ IsEvent(last_event', "earnings.clear_cache") =>
               DOMAIN collectors'.earnings.cache = {}
        /\ IsEvent(last_event', "news.clear_cache") =>
               DOMAIN collectors'.news.cache = {}
        /\ ~IsEvent(last_event', "earnings.clear_cache") =>
               \A k \in DOMAIN collectors.earnings.cache :
                  Live(collectors.earnings.cache, k, now') =>
                     Live(collectors'.earnings.cache, k, now')
        /\ ~IsEvent(last_event', "news.clear_cache") =>
               \A k \in DOMAIN collectors.news.cache :
                  Live(collectors.news.cache, k, now') =>
                     Live(collectors'.news.cache, k, now') ]_vars

\* a call has just returned, without a lookup, earnings stored earlier by a
\* call that passed the symbols in the other order: the days_until of the
\* stored list is the one computed then
C9_Witness ==
    /\ IsEvent(last_event, "get_earnings_for_symbols")
    /\ last_event.symbols = <<"MSFT", "AAPL">>
    /\ last_event.lookups = <<>>
    /\ last_event.result # <<>>
    /\ now > 0
    /\ last_event.result #
          get_earnings_for_symbols(EarningsCollector, <<"MSFT", "AAPL">>,
                                   Market.calendar, now).result
    /\ last_event.result =
          get_earnings_for_symbols(EarningsCollector, <<"AAPL", "MSFT">>,
                                   Market.calendar, 0).result

\* C10: a /analyze run with force_refresh has called clear_cache() on both
\* collectors before it awaits the holdings, and both caches are empty until
\* the run itself collects; a run without force_refresh has called neither.
C10_ForceRefreshClears ==
    \A run \in Running :
        run.kind = "analyze" =>
           /\ run.request.force_refresh => run.cleared = {"earnings", "news"}
           /\ ~run.request.force_refresh => run.cleared = {}
           /\ (run.request.force_refresh
                 /\ run.pc \in {"fetch_holdings", "analyze_holdings", "get_earnings"}) =>
                 DOMAIN run.earnings_collector.cache = {}
           /\ (run.request.force_refresh
                 /\ run.pc \in {"fetch_holdings", "analyze_holdings", "get_earnings",
                                "get_news"}) =>
                 DOMAIN run.news_collector.cache = {}

\* a run with force_refresh awaits the holdings, both caches cleared
C10_Witness ==
    \E run \in Running :
        /\ run.kind = "analyze"
        /\ run.request.force_refresh
        /\ run.pc = "fetch_holdings"
        /\ run.cleared = {"earnings", "news"}

\* the records of an evaluation
Records == IF IsEvent(last_event, "analyze_holdings") THEN last_event.result ELSE <<>>

\* C11: every record the analyzer produces is flagged if and only if its
\* change_percent is defined and at least the threshold in absolute value,
\* and a record whose current price or previous close is unknown has no
\* change_percent and is not flagged.
C11_FlagIffThreshold ==
    \A i \in 1..Len(Records) :
       LET p == Records[i]
       IN /\ p.is_high_fluctuation
               <=> (p.change_percent # None /\ Abs(Val(p.change_percent)) >= fluctuation_threshold)
          /\ (p.current_price = None \/ p.previous_close = None)
               => (p.change_percent = None /\ ~p.is_high_fluctuation)

\* an evaluation returned a record of exactly the threshold, flagged, next to
\* one just below it and one without a price
C11_Witness ==
    \E i, j, k \in 1..Len(Records) :
       /\ Records[i].change_percent = Some(-5) /\ Records[i].is_high_fluctuation
       /\ Records[j].change_percent = Some(4) /\ ~Records[j].is_high_fluctuation
       /\ Records[k].current_price = None /\ Records[k].change_percent = None

\* the positions of the flagged records of a list of records
FlaggedPositions(performances) ==
    { i \in 1..Len(performances) : performances[i].is_high_fluctuation }

\* the alert is the alert of the record
AlertOf(alert, p) ==
    /\ alert.symbol = p.symbol
    /\ alert.name = p.name
    /\ Some(alert.change_percent) = p.change_percent
    /\ alert.change_amount = p.change_amount
    /\ alert.current_price = p.current_price
    /\ alert.previous_close = p.previous_close
    /\ alert.direction = (IF Val(p.change_percent) > 0 THEN "up" ELSE "down")

\* C12: the alerts returned for a list of records are the alerts of its
\* flagged records, one for each and none for any other record, in order of
\* non-increasing absolute change percent, alerts of equal absolute change
\* percent in the order of their records.
C12_AlertsOrdered ==
    IsEvent(last_event, "get_fluctuation_alerts") =>
       LET performances == last_event.args
           alerts == last_event.result
           flagged == FlaggedPositions(performances)
       IN /\ Len(alerts) = Cardinality(flagged)
          /\ \E record \in [1..Len(alerts) -> flagged] :
                /\ \A k, l \in 1..Len(alerts) : k # l => record[k] # record[l]
                /\ \A k \in 1..Len(alerts) : AlertOf(alerts[k], performances[record[k]])
                /\ \A k, l \in 1..Len(alerts) :
                      k < l =>
                        \/ Abs(alerts[k].change_percent) > Abs(alerts[l].change_percent)
                        \/ /\ Abs(alerts[k].change_percent) = Abs(alerts[l].change_percent)
                           /\ record[k] < record[l]

\* alerts were derived from records in which a fall of 6 percent precedes a
\* rise of 6 percent and a rise of 10 percent comes last: the largest is
\* first and the two equal ones follow in the order of the records
C12_Witness ==
    /\ IsEvent(last_event, "get_fluctuation_alerts")
    /\ Len(last_event.args) = 3
    /\ last_event.args[1].change_percent = Some(-6)
    /\ last_event.args[2].change_percent = Some(6)
    /\ last_event.args[3].change_percent = Some(10)
    /\ Len(last_event.result) = 3
    /\ last_event.result[1].symbol = "TSLA"
    /\ last_event.result[2].direction = "down"
    /\ last_event.result[3].direction = "up"

\* C13: an evaluation returns one record per holding, in the order of the
\* holdings, whichever lookups raise; the record of a holding whose lookup
\* raised carries the holding's symbol, name and shares, no current price,
\* no previous close, no change and no flag, and the record of every other
\* holding is the one it has when it is evaluated alone.
C13_OneRecordPerHolding ==
    IsEvent(last_event, "analyze_holdings") =>
       LET holdings == last_event.args.holdings
           infos == last_event.args.infos
           records == last_event.result
       IN /\ Len(records) = Len(holdings)
          /\ \A i \in 1..Len(holdings) :
                /\ records[i].symbol = holdings[i].symbol
                /\ records[i].shares = holdings[i].shares
                /\ IF infos[holdings[i].symbol].raises
                   THEN /\ records[i].name = holdings[i].name
                        /\ records[i].current_price = None
                        /\ records[i].previous_close = None
                        /\ records[i].change_amount = None
                        /\ records[i].change_percent = None
                        /\ ~records[i].is_high_fluctuation
                   ELSE << records[i] >>
                           = analyze_holdings(<< holdings[i] >>, infos)

\* an evaluation of three holdings of which the first and the last lookup
\* raised returned three records, the middle one carrying its change
C13_Witness ==
    /\ IsEvent(last_event, "analyze_holdings")
    /\ Len(last_event.args.holdings) = 3
    /\ last_event.args.infos[last_event.args.holdings[1].symbol].raises
    /\ ~last_event.args.infos[last_event.args.holdings[2].symbol].raises
    /\ last_event.args.infos[last_event.args.holdings[3].symbol].raises
    /\ Len(last_event.result) = 3
    /\ last_event.result[1].current_price = None
    /\ last_event.result[2].change_percent = Some(10)
    /\ last_event.result[3].current_price = None

\* the list of EarningsEvent the latest call of the earnings collector returned
EarningsReturned ==
    IF IsEvent(last_event, "get_earnings_for_symbols")
          \/ IsEvent(last_event, "scrape_nasdaq_earnings")
    THEN last_event.result ELSE <<>>

\* C14: no list of EarningsEvent the earnings collector returns, from the
\* lookups, from its cache or from the scraped page, contains an event whose
\* days_until is below 0 or above 30.
C14_DaysWindow ==
    \A i \in 1..Len(EarningsReturned) :
       EarningsReturned[i].days_until >= 0 /\ EarningsReturned[i].days_until <= 30

\* the same of the lists get_earnings_for_symbols returns, on a miss and on
\* a hit of its cache
C14_PrimaryDaysWindow ==
    IsEvent(last_event, "get_earnings_for_symbols") => C14_DaysWindow

\* the scraped page returned an event of a day that has begun, days_until -1,
\* or one of a day more than 30 days ahead
C14_ScrapedOutOfWindow ==
    /\ IsEvent(last_event, "scrape_nasdaq_earnings")
    /\ \E i, j \in 1..Len(last_event.result) :
          /\ last_event.result[i].days_until < 0
          /\ last_event.result[j].days_until > 30

\* the shapes that carry a list of items
ListShapes == { "array", "portfolio_holdings", "holdings", "data", "positions" }

\* C15: parsing the same items as a bare array and under each of the keys
\* holdings, portfolio_holdings, data and positions has the same outcome,
\* the same list of holdings; a dict with none of these keys is parsed as
\* the array of that one item.
C15_ShapesAgree ==
    /\ \A a, b \in DOMAIN Parsed \cap ListShapes : Parsed[a] = Parsed[b]
    /\ \A a \in DOMAIN Parsed \cap ListShapes :
          "object" \in DOMAIN Parsed => Parsed["object"] = Parsed[a]

\* two well-formed items were parsed in all five list shapes and gave the
\* two holdings
C15_Witness ==
    /\ DOMAIN Parsed = ListShapes
    /\ Len(input) = 2
    /\ Parsed["positions"].raised = None
    /\ Len(Parsed["positions"].value) = 2
    /\ Parsed["positions"].value[1].symbol = "AAPL"
    /\ Parsed["positions"].value[2].symbol = "MSFT"

\* the symbol candidates, in the order they are tried
SymbolCandidates == << "symbol", "ticker", "Symbol", "Ticker" >>

\* the item has a present, non-empty value under the key
Present(item, key) ==
    /\ key \in DOMAIN item.value
    /\ item.value[key] \notin { JNull, JStr(""), JNum(0), JList(<<>>), JDict(<<>>) }

HasSymbol(item) ==
    item.type = "dict" /\ \E i \in 1..Len(SymbolCandidates) : Present(item, SymbolCandidates[i])

\* the value under the first candidate that is present and non-empty
FirstPresent(item) ==
    LET first == CHOOSE i \in 1..Len(SymbolCandidates) :
                    /\ Present(item, SymbolCandidates[i])
                    /\ \A j \in 1..(i - 1) : ~Present(item, SymbolCandidates[j])
    IN item.value[SymbolCandidates[first]]

\* the keys of the numeric fields
NumericKeys ==
    { "shares", "quantity", "open_quantity", "Shares", "Quantity",
      "average_cost", "averageCost", "average_entry_price", "cost_basis",
      "current_price", "currentPrice", "price",
      "market_value", "marketValue", "current_market_value", "value" }

\* the item has a symbol that is no string, or a value that is no number
\* under a key of a numeric field
Malformed(item) ==
    /\ HasSymbol(item)
    /\ \/ FirstPresent(item).type # "str"
       \/ \E key \in NumericKeys :
             /\ Present(item, key)
             /\ item.value[key].type # "num"
             /\ ~(item.value[key].type = "str" /\ item.value[key].value \in {"10", "7"})

\* the items of the payload that have a symbol
WithSymbol == SelectSeq(input, HasSymbol)

\* C16: an item without a present, non-empty value under any of the symbol
\* candidates is dropped and never makes the parse raise, and every holding
\* the parse returns has a non-empty, uppercased symbol, the value of the
\* first candidate (symbol, ticker, Symbol, Ticker) that is present and
\* non-empty in its item.
C16_SymbolFromFirstCandidate ==
    "array" \in DOMAIN Parsed =>
       LET outcome == Parsed["array"]
       IN /\ outcome.raised # None => \E i \in 1..Len(input) : Malformed(input[i])
          /\ outcome.raised = None =>
                /\ Len(outcome.value) = Len(WithSymbol)
                /\ \A k \in 1..Len(WithSymbol) :
                      /\ outcome.value[k].symbol # ""
                      /\ outcome.value[k].symbol = upper(outcome.value[k].symbol)
                      /\ outcome.value[k].symbol = upper(FirstPresent(WithSymbol[k]).value)

\* a payload of an item without symbol (and with shares that are no number)
\* and an item with candidates under Symbol and Ticker was parsed to the one
\* holding of the second item, its symbol the uppercased value under Symbol
C16_Witness ==
    /\ "array" \in DOMAIN Parsed
    /\ Len(input) = 2
    /\ ~HasSymbol(input[1])
    /\ input[1].type = "dict"
    /\ "shares" \in DOMAIN input[1].value
    /\ input[2].type = "dict"
    /\ DOMAIN input[2].value = { "Symbol", "Ticker" }
    /\ Parsed["array"].raised = None
    /\ Len(Parsed["array"].value) = 1
    /\ Parsed["array"].value[1].symbol = "TSLA"

\* C17: when an item of a payload is malformed the parse does not raise and
\* returns the holdings of the other items that have a symbol.
C17_MalformedItemDropped ==
    "array" \in DOMAIN Parsed =>
       LET kept == SelectSeq(WithSymbol, LAMBDA item : ~Malformed(item))
       IN /\ Parsed["array"].raised = None
          /\ Len(Parsed["array"].value) = Len(kept)
          /\ \A k \in 1..Len(kept) :
                Parsed["array"].value[k].symbol = upper(FirstPresent(kept[k]).value)

\* the parse of a well-formed item followed by an item whose shares are no
\* number raised ValueError
C17_ParseRaises ==
    /\ "array" \in DOMAIN Parsed
    /\ Len(input) = 2
    /\ HasSymbol(input[1]) /\ ~Malformed(input[1])
    /\ Malformed(input[2])
    /\ Parsed["array"].raised # None
    /\ Parsed["array"].raised.type = "ValueError"

\* the summary of the result is the template without LLM, stating the
\* counts of the result
TemplateSummary(result) ==
    /\ result.summary # None
    /\ result.summary.model_used = "none"
    /\ result.summary.summary =
          "Portfolio analysis complete. " \o ToString(result.holdings_count)
             \o " holdings analyzed, " \o ToString(Len(result.fluctuation_alerts))
             \o " showing significant movement."
    /\ result.summary.key_insights =
          << "Total holdings: " \o ToString(result.holdings_count),
             "High fluctuation stocks: " \o ToString(Len(result.fluctuation_alerts)),
             "Upcoming earnings: " \o ToString(Len(result.upcoming_earnings)) >>

\* C18: with no narrative provider configured, the result of every
\* successful run, of /analyze and of the scheduler alike, has the template
\* summary stating the holdings, alert and earnings counts of the run, with
\* model_used "none".
C18_TemplateSummary ==
    ~is_configured(settings) =>
       /\ Returned(last_event, "success") => TemplateSummary(last_event.body)
       /\ (SchedulerCompleted(last_event) /\ agent_module_registered)
             => TemplateSummary(latest_analysis)

\* the same of the runs of /analyze only
C18_AnalyzeTemplateSummary ==
    (~is_configured(settings) /\ Returned(last_event, "success"))
       => TemplateSummary(last_event.body)

\* with no provider configured a scheduler run completed and stored a
\* success result of its holdings that has no summary
C18_SchedulerWithoutSummary ==
    /\ ~is_configured(settings)
    /\ SchedulerCompleted(last_event)
    /\ agent_module_registered
    /\ latest_analysis.status = "success"
    /\ latest_analysis.holdings_count > 0
    /\ latest_analysis.summary = None

\* the summary of the result is the fallback of generate_summary, stating
\* the counts of the result
FallbackSummary(result) ==
    /\ result.summary # None
    /\ result.summary.model_used = "error"
    /\ result.summary.key_insights =
          << "Portfolio contains " \o ToString(result.holdings_count) \o " holdings",
             ToString(Len(result.fluctuation_alerts))
                \o " stocks show significant movement (>5%)",
             ToString(Len(result.upcoming_earnings)) \o " upcoming earnings events" >>

C19_ProviderFailureFallback ==
    (Returned(last_event, "success") /\ is_configured(settings))
       => /\ last_event.body.summary # None
          /\ last_event.body.summary.model_used = "error"
                => FallbackSummary(last_event.body)

ValidFiveFields == { "0 9,16 * * 1-5", "30 8 * * *", "  0  9 * * mon-fri " }
FewerThanFiveFields == { "", "0 9 * *" }
RefusedField ==
    { "61 * * * *", "0 24 * * *", "0 9 0 * *", "0 9 * mon-fri *", "0 9 * * 7",
      "0 9 * * funday" }

\* C20: an update with a valid expression of five fields succeeds; an
\* update with fewer than five fields or with a field the trigger refuses
\* is answered 400 and leaves the scheduler, its job with trigger and next
\* run time and its running state, as it was.
C20_InvalidCronRefused ==
    [][ IsEvent(last_event', "update_cron") =>
          /\ input' \in ValidFiveFields =>
                /\ last_event'.status_code = Some(200)
                /\ last_event'.body.status = "updated"
          /\ input' \in FewerThanFiveFields \cup RefusedField =>
                /\ last_event'.status_code = Some(400)
                /\ scheduler' = scheduler
                /\ get_next_run_time(scheduler') = get_next_run_time(scheduler) ]_vars

\* an update with a refused day_of_week was answered 400 while the scheduler
\* runs the job with the trigger of an earlier update
C20_Witness ==
    /\ IsEvent(last_event, "update_cron")
    /\ input = "0 9 * * 7"
    /\ last_event.status_code = Some(400)
    /\ scheduler.running
    /\ get_job(scheduler, job_id).trigger.minute = "30"
    /\ get_next_run_time(scheduler) = Some(SecondsPerDay + 8 * 3600 + 30 * 60)

\* C21: starting a running scheduler changes nothing and is answered
\* already_running, stopping a stopped scheduler changes nothing and is
\* answered already_stopped, and after any sequence of start, stop and
\* update calls the job store holds at most one job, the analysis job.
C21_StartStopIdempotent ==
    [][ /\ (IsEvent(last_event', "start_scheduler") /\ scheduler.running) =>
              /\ scheduler' = scheduler
              /\ last_event'.body.status = "already_running"
        /\ (IsEvent(last_event', "stop_scheduler") /\ ~scheduler.running) =>
              /\ scheduler' = scheduler
              /\ last_event'.body.status = "already_stopped"
        /\ Len(scheduler'.jobs) <= 1
        /\ \A i \in 1..Len(scheduler'.jobs) : scheduler'.jobs[i].id = job_id ]_vars

\* a start was answered already_running while the scheduler runs the job
\* with the trigger of an earlier update
C21_Witness ==
    /\ IsEvent(last_event, "start_scheduler")
    /\ last_event.body.status = "already_running"
    /\ scheduler.running
    /\ Len(scheduler.jobs) = 1
    /\ scheduler.jobs[1].trigger.minute = "30"

\* the read-only views of the Result Store and the on-demand endpoints
StoreViews ==
    { "get_latest_summary", "get_fluctuations", "get_earnings", "get_news",
      "get_analysis_status" }
OnDemand == { "get_holdings", "get_holdings_performance", "get_holdings_fluctuations" }

\* C22: the read endpoints and the on-demand endpoints leave the flag and
\* the Result Store as they were; with an empty store the read endpoints
\* answer empty views: a null summary, empty lists with count 0,
\* has_analysis false.
C22_ReadsLeaveStore ==
    [][ (last_event' # None /\ last_event'.kind \in StoreViews \cup OnDemand) =>
          /\ analysis_in_progress' = analysis_in_progress
          /\ latest_analysis' = latest_analysis
          /\ (last_event'.kind \in StoreViews) =>
                last_event'.status_code = Some(200)
          /\ (latest_analysis = None) =>
                /\ (last_event'.kind = "get_latest_summary") =>
                       last_event'.body = None
                /\ (last_event'.kind = "get_fluctuations") =>
                       last_event'.body = [fluctuations |-> << >>, count |-> 0]
                /\ (last_event'.kind = "get_earnings") =>
                       last_event'.body = [earnings |-> << >>, count |-> 0]
                /\ (last_event'.kind = "get_news") =>
                       last_event'.body = [news |-> << >>, count |-> 0]
                /\ (last_event'.kind = "get_analysis_status") =>
                       /\ last_event'.body.has_analysis = FALSE
                       /\ last_event'.body.holdings_count = 0
                       /\ last_event'.body.last_analyzed = None ]_vars

\* the status endpoint answered in_progress true, has_analysis false while
\* a run holds the flag behind an empty store
C22_Witness ==
    /\ IsEvent(last_event, "get_analysis_status")
    /\ last_event.body.in_progress
    /\ ~last_event.body.has_analysis
    /\ analysis_in_progress
    /\ latest_analysis = None
    /\ \E run \in Running : run.kind = "analyze" /\ run.pc # "fetch_holdings"

\* an on-demand endpoint answered while a run holds the flag and the store
\* holds the result of an earlier run
C22_OnDemandDuringRun ==
    /\ last_event # None /\ last_event.kind \in OnDemand
    /\ last_event.status_code = Some(200)
    /\ analysis_in_progress
    /\ latest_analysis # None

\* the place of a stage in the pipeline
StageRank(pc) ==
    CASE pc = "fetch_holdings" -> 1
      [] pc = "analyze_holdings" -> 2
      [] pc = "get_earnings" -> 3
      [] pc = "get_news" -> 4
      [] pc = "generate_summary" -> 5

\* what the collections of a run return once they have completed
EarningsOf(run) ==
    get_earnings_for_symbols(EarningsCollector, all_symbols(run), Market.calendar, now).result
NewsOf(run) ==
    get_news_for_high_fluctuation(NewsCollector, fluctuation_symbols(run),
                                  Market.news, now).result

\* A run suspended in a stage holds what the stages before it returned and
\* nothing of the stage itself or of those after it.
StagesInOrder(run) ==
    /\ (StageRank(run.pc) >= 2) <=> (run.holdings_response # None)
    /\ IF StageRank(run.pc) >= 3
       THEN /\ Len(run.performance) = Len(run.holdings_response.holdings)
            /\ run.performance = analyze_holdings(run.holdings_response.holdings, Market.info)
            /\ run.fluctuations = get_fluctuation_alerts(run.performance)
       ELSE run.performance = << >> /\ run.fluctuations = << >>
    /\ IF StageRank(run.pc) >= 4 /\ IncludeEarnings(run)
       THEN run.earnings = EarningsOf(run)
       ELSE run.earnings = << >>
    /\ IF StageRank(run.pc) >= 5 /\ IncludeNews(run) /\ run.fluctuations # << >>
       THEN run.news = NewsOf(run)
       ELSE run.news = << >>
    /\ run.summary = None

\* C23: the stages of a run execute in the order holdings, performance,
\* earnings, news, summary: a run moves only to a later stage, the
\* performance stage starts with the holdings at hand, the collections start
\* with the record of every holding, the summary starts with what the
\* collections returned.
C23_StagesInOrder ==
    /\ [](\A run \in Running : StagesInOrder(run))
    /\ [][ \A run \in Running : \A to \in BagToSet(runs') :
             (to # run /\ runs' = Moved(run, to)) =>
                 /\ StageRank(to.pc) > StageRank(run.pc)
                 /\ to.kind = run.kind /\ to.request = run.request ]_vars

\* a run that fetched its holdings from the endpoint awaits the provider
\* with the records, the alerts, the earnings and the news collected
C23_Witness ==
    \E run \in Running :
       /\ run.kind = "analyze" /\ run.pc = "generate_summary"
       /\ run.holdings_response.source = "ngrok"
       /\ Len(run.performance) = 2
       /\ run.fluctuations # << >> /\ run.earnings # << >> /\ run.news # << >>

\* the symbols of alerts as they are in a response
AlertSymbols(alerts) == [i \in 1..Len(alerts) |-> alerts[i].symbol]

\* C24: an /analyze run collects earnings for the symbols of all its
\* holdings and news for the symbols of its alerts; without
\* include_earnings the earnings collector is not invoked and the result has
\* no earnings, without include_news or without an alert the news collector
\* is not invoked and the result has no news.
C24_CollectionScope ==
    /\ [](\A run \in Running :
            run.kind = "analyze" =>
               /\ run.pc = "get_earnings" => run.request.include_earnings
               /\ run.pc = "get_news" =>
                     run.request.include_news /\ run.fluctuations # << >>
               /\ ~run.request.include_earnings =>
                     run.earnings_collector = EarningsCollector
               /\ (~run.request.include_news
                     \/ (StageRank(run.pc) >= 3 /\ run.fluctuations = << >>)) =>
                     run.news_collector = NewsCollector)
    /\ [][ \A run \in Running :
             (/\ run.kind = "analyze" /\ runs' = Ended(run)
              /\ IsEvent(last_event', "analyze")
              /\ last_event'.body.status = "success") =>
                LET result == last_event'.body
                IN /\ result.upcoming_earnings =
                        IF run.request.include_earnings THEN EarningsOf(run) ELSE << >>
                   /\ result.news_items =
                        IF run.request.include_news /\ result.fluctuation_alerts # << >>
                        THEN get_news_for_high_fluctuation(
                                 NewsCollector, AlertSymbols(result.fluctuation_alerts),
                                 Market.news, now).result
                        ELSE << >> ]_vars

\* an /analyze run ended with alerts and earnings and without news in the
\* market that has news of every mover: the request excluded news
C24_Witness ==
    /\ IsEvent(last_event, "analyze")
    /\ last_event.status_code = Some(200)
    /\ last_event.body.status = "success"
    /\ world = "active"
    /\ last_event.body.fluctuation_alerts # << >>
    /\ last_event.body.upcoming_earnings # << >>
    /\ last_event.body.news_items = << >>

\* C25: during a call at most 10 quote lookups, and at most 5 lookups of a
\* collector, execute at once, however many were dispatched, and the call
\* has returned only if every lookup it dispatched has completed, failed or
\* not.
C25_BoundedFanOut ==
    pool # None =>
       /\ pool.service = "analyze_holdings" =>
             Cardinality(pool.executor.running) <= analyzer_max_workers
       /\ pool.service = "get_earnings_for_symbols" =>
             Cardinality(pool.executor.running) <= earnings_max_workers
       /\ pool.service = "get_news_for_symbols" =>
             Cardinality(pool.executor.running) <= news_max_workers
       /\ pool.returned =>
             /\ pool.submitted = pool.lookups
             /\ DOMAIN pool.results = 1..pool.lookups
             /\ pool.executor.running = {} /\ pool.executor.queue = << >>

\* an evaluation of more holdings than the executor has workers has
\* returned, two of its lookups failed, and as many lookups ran at once as
\* there are workers
C25_Witness ==
    /\ pool # None
    /\ pool.service = "analyze_holdings"
    /\ pool.lookups > analyzer_max_workers
    /\ pool.returned
    /\ pool.peak = analyzer_max_workers
    /\ \E i \in DOMAIN pool.results : pool.results[i] = "failed"

\* how often a symbol is in a list, and the items of a symbol in a result
Occurrences(symbols, s) == Cardinality({ i \in 1..Len(symbols) : symbols[i] = s })
ItemsOf(result, s) == { i \in 1..Len(result) : result[i].symbol = s }

\* the lookup of the symbol succeeds in the call
Succeeds(s) == s \notin input.failing /\ s # "NVDA"

\* the lookup of the symbol finds an earnings date within 0 to 30 days
InWindow(s) ==
    /\ BatchCalendar[s].earnings_date # None
    /\ Val(BatchCalendar[s].earnings_date) >= now
    /\ Val(BatchCalendar[s].earnings_date) < now + DaySeconds(31)

Least(a, b) == IF a < b THEN a ELSE b

\* C26: a collect call returns a list whichever lookups fail; a symbol
\* whose lookup fails has no item in it; a symbol whose lookup succeeds
\* has, for each time it is in the symbols passed, its one event if the
\* date is in the window, respectively the first max_per_symbol items of
\* its feed.
C26_FailedLookupsAbsorbed ==
    /\ IsEvent(last_event, "get_earnings_for_symbols") =>
          \A s \in Symbols :
             /\ Cardinality(ItemsOf(last_event.result, s)) =
                   IF Succeeds(s) /\ InWindow(s)
                   THEN Occurrences(last_event.symbols, s) ELSE 0
             /\ \A i \in ItemsOf(last_event.result, s) :
                   last_event.result[i].earnings_date = Val(BatchCalendar[s].earnings_date)
    /\ IsEvent(last_event, "get_news_for_symbols") =>
          \A s \in Symbols :
             /\ Cardinality(ItemsOf(last_event.result, s)) =
                   IF Succeeds(s)
                   THEN Occurrences(last_event.symbols, s)
                           * Least(Val(last_event.max_per_symbol), Len(BatchFeeds[s].items))
                   ELSE 0
             /\ \A i \in ItemsOf(last_event.result, s) :
                   \E k \in 1..Least(Val(last_event.max_per_symbol), Len(BatchFeeds[s].items)) :
                      last_event.result[i].title = BatchFeeds[s].items[k].title

\* earnings were collected for three symbols with dates in the window, the
\* lookups of two of them failed, and the list holds the event of the third
C26_Witness ==
    /\ IsEvent(last_event, "get_earnings_for_symbols")
    /\ last_event.symbols = << "AAPL", "MSFT", "GOOGL" >>
    /\ input.failing = {"AAPL", "GOOGL"}
    /\ Len(last_event.result) = 1
    /\ last_event.result[1].symbol = "MSFT"

\* C27: the earnings returned are in order of non-decreasing earnings
\* date; the news returned are in order of non-increasing publish time,
\* the items without publish time after all items that have one.
C27_ResultsOrdered ==
    /\ IsEvent(last_event, "get_earnings_for_symbols") =>
          \A k, l \in 1..Len(last_event.result) :
             k < l => last_event.result[k].earnings_date <= last_event.result[l].earnings_date
    /\ IsEvent(last_event, "get_news_for_symbols") =>
          \A k, l \in 1..Len(last_event.result) :
             k < l =>
                \/ last_event.result[l].published_at = None
                \/ /\ last_event.result[k].published_at # None
                   /\ Val(last_event.result[k].published_at)
                         >= Val(last_event.result[l].published_at)

\* news were collected for a symbol whose first items are timed 500, none,
\* 700 and for one timed 600, 500: the list runs 700, 600, 500, 500, none
C27_Witness ==
    /\ IsEvent(last_event, "get_news_for_symbols")
    /\ last_event.symbols = << "AAPL", "MSFT" >>
    /\ input.failing = {}
    /\ Len(last_event.result) = 5
    /\ last_event.result[1].title = "a3"
    /\ last_event.result[2].title = "m1"
    /\ last_event.result[3].published_at = Some(500)
    /\ last_event.result[4].published_at = Some(500)
    /\ last_event.result[5].published_at = None

\* C28: every event a collect call of the earnings collector returns has
\* days_until equal to the whole days from the time of the call to its
\* earnings date, also when the call is answered from the cache.
C28_DaysUntilCurrent ==
    IsEvent(last_event, "get_earnings_for_symbols") =>
       \A k \in 1..Len(last_event.result) :
          last_event.result[k].days_until =
             (last_event.result[k].earnings_date - now) \div SecondsPerDay

\* a call answered from the cache without any lookup returns an event whose
\* days_until is that of the time the entry was written
C28_StaleDaysUntil ==
    /\ IsEvent(last_event, "get_earnings_for_symbols")
    /\ last_event.lookups = <<>>
    /\ now > 0
    /\ \E k \in 1..Len(last_event.result) :
          /\ last_event.result[k].symbol = "MSFT"
          /\ last_event.result[k].days_until = 3
          /\ (last_event.result[k].earnings_date - now) \div SecondsPerDay = 2

\* a call that runs its lookups returns events whose days_until is that of
\* the time of the call
C28_FreshDaysUntil ==
    (IsEvent(last_event, "get_earnings_for_symbols") /\ last_event.lookups # <<>>) =>
       \A k \in 1..Len(last_event.result) :
          last_event.result[k].days_until =
             (last_event.result[k].earnings_date - now) \div SecondsPerDay

\* the section a line of the reply is under: that of the last line before
\* it that has no bullet and names a section
RECURSIVE SectionAt(_, _)
SectionAt(lines, i) ==
    IF i = 0 THEN "summary"
    ELSE LET line == lines[i]
         IN IF line.marker # "" \/ line.words = {} THEN SectionAt(lines, i - 1)
            ELSE IF "insight" \in line.words THEN "insights"
            ELSE IF line.words \cap {"recommendation", "action"} # {} THEN "recommendations"
            ELSE IF line.words \cap {"risk", "caution", "warning"} # {} THEN "risks"
            ELSE "summary"

\* the texts of the bullet lines under the headers of a section, in order
RECURSIVE BulletsUnder(_, _, _)
BulletsUnder(lines, section, n) ==
    IF n = 0 THEN <<>>
    ELSE IF lines[n].marker # "" /\ SectionAt(lines, n - 1) = section
         THEN Append(BulletsUnder(lines, section, n - 1), lines[n].content)
         ELSE BulletsUnder(lines, section, n - 1)

\* the plain lines of the summary section, in order
RECURSIVE SummaryLines(_, _)
SummaryLines(lines, n) ==
    IF n = 0 THEN <<>>
    ELSE IF /\ lines[n].marker = "" /\ lines[n].content # "" /\ lines[n].words = {}
            /\ SectionAt(lines, n - 1) = "summary"
         THEN Append(SummaryLines(lines, n - 1), lines[n].content)
         ELSE SummaryLines(lines, n - 1)

\* the lists and the summary hold the bullets and the plain lines of their
\* sections (the lists' defaults where there are none)
ParsedBySection ==
    LET lines == last_event.args
        parsed == last_event.result
        insights == BulletsUnder(lines, "insights", Len(lines))
        recommendations == BulletsUnder(lines, "recommendations", Len(lines))
        plain == SummaryLines(lines, Len(lines))
    IN /\ parsed.key_insights = IF insights # <<>> THEN insights
                                ELSE <<"Analysis complete - review details below">>
       /\ parsed.recommendations = IF recommendations # <<>> THEN recommendations
                                   ELSE <<"Monitor high-fluctuation positions">>
       /\ parsed.risk_factors = BulletsUnder(lines, "risks", Len(lines))
       /\ plain # <<>> => parsed.summary = Join(" ", plain)

\* C29: every bullet line of a reply after an insight, recommendation or
\* risk header, up to the next header, is in key_insights, recommendations
\* or risk_factors, in the order of the reply, whatever words it contains;
\* the lines without bullet of the summary section make up the summary.
C29_BulletsByHeader ==
    IsEvent(last_event, "_parse_response") => ParsedBySection

\* a bullet under the recommendation header that contains the word risk is
\* in no list, and the bullet after it is in risk_factors
C29_BulletTakenAsHeader ==
    /\ IsEvent(last_event, "_parse_response")
    /\ last_event.args = << Line("", "Recommendations:", {"recommendation"}),
                            Line("*", "Reduce risk in TSLA", {"risk"}),
                            Line("-", "NVDA leads the gains", {}) >>
    /\ last_event.result.recommendations = <<"Monitor high-fluctuation positions">>
    /\ last_event.result.risk_factors = <<"NVDA leads the gains">>

\* in a reply none of whose bullets contains a word the parser looks for,
\* the bullets and the plain lines are parsed by section
C29_PlainBulletsByHeader ==
    (/\ IsEvent(last_event, "_parse_response")
     /\ \A i \in 1..Len(last_event.args) :
           last_event.args[i].marker # "" => last_event.args[i].words = {})
       => ParsedBySection

\* C30: a record with current price c and previous close p has change
\* amount c - p and change percent (c - p) / p * 100; an alert has direction
\* "up" exactly when its change percent is above 0 and "down" otherwise,
\* and has the symbol, the change and the prices of a flagged record.
C30_ChangeAndDirection ==
    /\ \A i \in 1..Len(Records) :
          LET r == Records[i]
          IN (Truthy(r.current_price) /\ Truthy(r.previous_close)) =>
                /\ r.change_amount = Some(Val(r.current_price) - Val(r.previous_close))
                /\ r.change_percent # None
                /\ Val(r.change_percent) * Val(r.previous_close)
                      = (Val(r.current_price) - Val(r.previous_close)) * 100
    /\ IsEvent(last_event, "get_fluctuation_alerts") =>
          \A k \in 1..Len(last_event.result) :
             LET alert == last_event.result[k]
             IN /\ alert.direction \in {"up", "down"}
                /\ alert.direction = "up" <=> alert.change_percent > 0
                /\ \E i \in 1..Len(last_event.args) :
                      LET r == last_event.args[i]
                      IN /\ r.is_high_fluctuation
                         /\ alert.symbol = r.symbol
                         /\ r.change_percent = Some(alert.change_percent)
                         /\ alert.change_amount = r.change_amount
                         /\ alert.current_price = r.current_price
                         /\ alert.previous_close = r.previous_close

\* the alerts of a record with current price 110 and previous close 100,
\* that is change 10 and 10 percent, and of one with 94 and 100: the first
\* is up, the second down
C30_Witness ==
    /\ IsEvent(last_event, "get_fluctuation_alerts")
    /\ \E i \in 1..Len(last_event.args) :
          /\ last_event.args[i].current_price = Some(110)
          /\ last_event.args[i].previous_close = Some(100)
          /\ last_event.args[i].change_amount = Some(10)
          /\ last_event.args[i].change_percent = Some(10)
          /\ last_event.args[i].is_high_fluctuation
    /\ \E k, l \in 1..Len(last_event.result) :
          /\ last_event.result[k].change_percent = 10
          /\ last_event.result[k].direction = "up"
          /\ last_event.result[l].change_percent = -6
          /\ last_event.result[l].change_amount = Some(-6)
          /\ last_event.result[l].direction = "down"

\* C31: no step of an /analyze run that ends with status error writes the
\* store: its admission, the return of each of its stages and the step
\* that returns the error response leave the store as it was; a store that
\* is not empty holds a result of status success.
C31_ErrorRunLeavesStore ==
    /\ [](latest_analysis # None => latest_analysis.status = "success")
    /\ [][ /\ Returned(last_event', "error") => latest_analysis' = latest_analysis
           /\ \A run \in Running :
                 (/\ run.kind = "analyze"
                  /\ \E to \in BagToSet(runs') : to # run /\ runs' = Moved(run, to))
                    => latest_analysis' = latest_analysis
           /\ (analysis_in_progress' /\ ~analysis_in_progress)
                 => latest_analysis' = latest_analysis ]_vars

\* an /analyze run that had reached the summary stage
\* has just returned an error, and the store holds the earlier success
C31_Witness ==
    /\ Returned(last_event, "error")
    /\ last_event.body.error = Some(StageException("generate_summary").msg)
    /\ latest_analysis # None
    /\ latest_analysis.status = "success"
    /\ latest_analysis.holdings_count > 0

\* the time to live of the entries a method of a collector stores
TimeToLive(method) ==
    IF method = "get_earnings_for_symbols" THEN earnings_ttl ELSE news_ttl

\* call j of the log follows call i of the same method and symbols, both by
\* runs without force_refresh, within the time to live of what call i
\* stored and with no cache cleared in between
Repeats(i, j) ==
    /\ i < j
    /\ input[i].method \in {"get_earnings_for_symbols", "get_news_for_symbols"}
    /\ input[j].method = input[i].method
    /\ input[j].key = input[i].key
    /\ ~input[i].force_refresh /\ ~input[j].force_refresh
    /\ input[i].lookups # <<>>
    /\ input[j].at < input[i].at + TimeToLive(input[i].method)
    /\ \A k \in i..j : input[k].method # "clear_cache"

\* C32: of two collect calls for the same symbols by runs without
\* force_refresh, the second within the time to live of the entry the
\* first stored, the second is served from the cache: it looks no symbol up.
C32_CachePersistsAcrossRuns ==
    \A i, j \in 1..Len(input) : Repeats(i, j) => input[j].lookups = <<>>

\* a run collected earnings for the symbols of the portfolio, and a run that
\* started a tick later, after the first had ended, looked the same symbols
\* up again
C32_SecondRunLooksUpAgain ==
    /\ Len(input) >= 3
    /\ Repeats(1, 3)
    /\ input[1].method = "get_earnings_for_symbols"
    /\ input[1].at = 0
    /\ input[3].at = TickSeconds
    /\ input[3].lookups = input[1].lookups
    /\ input[3].lookups # <<>>
    /\ latest_analysis # None
    /\ latest_analysis.analyzed_at = 0

\* C33: a collect call that looks its symbols up stores what it returns
\* under the key of its symbols for the time to live, also when it returns
\* the empty list because every lookup failed; a call that finds the entry
\* returns the stored list and looks no symbol up; the entry stays until
\* its time to live has passed or the cache is cleared.
C33_MissAlwaysStores ==
    [][ /\ IsEvent(last_event', "get_earnings_for_symbols") =>
            LET e == last_event'
                key == earnings_cache_key(e.symbols)
            IN /\ Live(collectors'.earnings.cache, key, now)
               /\ collectors'.earnings.cache[key].value = e.result
               /\ e.lookups # <<>> =>
                     collectors'.earnings.cache[key].expires = now + earnings_ttl
               /\ Live(collectors.earnings.cache, key, now) <=> e.lookups = <<>>
        /\ IsEvent(last_event', "get_news_for_symbols") =>
            LET e == last_event'
                key == news_cache_key(e.symbols, Val(e.max_per_symbol))
            IN /\ Live(collectors'.news.cache, key, now)
               /\ collectors'.news.cache[key].value = e.result
               /\ e.lookups # <<>> =>
                     collectors'.news.cache[key].expires = now + news_ttl
               /\ Live(collectors.news.cache, key, now) <=> e.lookups = <<>>
        /\ \A key \in DOMAIN collectors.earnings.cache :
              (Live(collectors.earnings.cache, key, now')
                 /\ ~IsEvent(last_event', "earnings.clear_cache"))
                => Live(collectors'.earnings.cache, key, now')
        /\ \A key \in DOMAIN collectors.news.cache :
              (Live(collectors.news.cache, key, now')
                 /\ ~IsEvent(last_event', "news.clear_cache"))
                => Live(collectors'.news.cache, key, now') ]_vars

\* earnings were collected for a symbol whose lookup raises; a later call,
\* still within the time to live, has returned the empty list stored then
\* without a lookup
C33_Witness ==
    /\ IsEvent(last_event, "get_earnings_for_symbols")
    /\ last_event.symbols = <<"NVDA">>
    /\ last_event.lookups = <<>>
    /\ last_event.result = <<>>
    /\ now > 0
    /\ collectors.earnings.cache[earnings_cache_key(<<"NVDA">>)].expires = earnings_ttl

\* the latest update was accepted
LatestUpdateAccepted == input \in ValidFiveFields

\* C34: a status query after a successful cron update reports the
\* expression of that update; a rejected update leaves what the status
\* query reports as it was.
C34_StatusReportsUpdate ==
    [][ /\ (IsEvent(last_event', "get_scheduler_status") /\ LatestUpdateAccepted) =>
              last_event'.body.cron_expression = Join(" ", split(input))
        /\ (IsEvent(last_event', "update_cron") /\ last_event'.status_code # Some(200)) =>
              get_status(scheduler', settings').cron_expression
                 = get_status(scheduler, settings).cron_expression ]_vars

\* the update to 30 8 * * * was accepted and the job runs with its trigger,
\* and the status query reports the configured expression
C34_StatusReportsConfigured ==
    /\ IsEvent(last_event, "get_scheduler_status")
    /\ input = "30 8 * * *"
    /\ scheduler.running
    /\ get_job(scheduler, job_id).trigger.minute = "30"
    /\ last_event.body.next_run = get_next_run_time(scheduler)
    /\ last_event.body.cron_expression = "0 9,16 * * 1-5"

\* C35: while the scheduler runs after an accepted cron update, the trigger
\* of the analysis job is the one built from the accepted expression, also
\* when the scheduler was stopped at the update and started afterwards.
C35_AcceptedUpdateInForce ==
    (LatestUpdateAccepted /\ scheduler.running) =>
       /\ get_job(scheduler, job_id) # None
       /\ get_job(scheduler, job_id).trigger = CronTrigger(split(input))

\* an update to 30 8 * * * was accepted while the scheduler was stopped; the
\* scheduler has just been started and runs the job at 9 and 16 on weekdays
C35_UpdateLostOnStart ==
    /\ IsEvent(last_event, "start_scheduler")
    /\ last_event.body.status = "started"
    /\ input = "30 8 * * *"
    /\ scheduler.running
    /\ get_job(scheduler, job_id).trigger = CronTrigger(scheduler_cron)

\* an accepted update of a running scheduler installs its trigger
C35_RunningUpdateInstalled ==
    [][ (/\ IsEvent(last_event', "update_cron")
         /\ last_event'.status_code = Some(200)
         /\ scheduler.running) =>
           /\ scheduler'.running
           /\ get_job(scheduler', job_id).trigger = CronTrigger(split(input')) ]_vars

\* the latest step ended an execution of _run_analysis in its except clause
SchedulerFailed(e) == SchedulerEnded(e) /\ ~SchedulerCompleted(e)

\* C36: every run of the cron job and of the manual trigger sets last_run
\* to the time it finishes, completed or failed, and ends inside
\* _run_analysis with one of its two log lines; a failed one leaves the
\* stored result as it was; every other step, those of the runs of /analyze
\* among them, leaves last_run as it was.
C36_SchedulerRunSetsLastRun ==
    [][ /\ \A run \in Running :
              (run.kind # "analyze" /\ runs' = Ended(run)) =>
                 /\ SchedulerEnded(last_event')
                 /\ last_event'.kind = run.kind
                 /\ scheduler'.last_run = Some(now')
                 /\ run.kind = "trigger" => last_event'.status_code = Some(200)
        /\ SchedulerFailed(last_event') => latest_analysis' = latest_analysis
        /\ ~SchedulerEnded(last_event') => scheduler'.last_run = scheduler.last_run
        /\ \A run \in Running :
              (run.kind = "analyze" /\ runs' = Ended(run)) => scheduler' = scheduler ]_vars

\* a triggered run has just failed in a stage: last_run is set although no
\* run completed, and the stored result is the success of an earlier run
C36_Witness ==
    /\ SchedulerFailed(last_event)
    /\ last_event.kind = "trigger"
    /\ last_event.log = Some("Analysis failed: " \o StageException("analyze_holdings").msg)
    /\ scheduler.last_run = Some(now)
    /\ latest_analysis # None
    /\ latest_analysis.status = "success"
    /\ latest_analysis.holdings_count > 0

====
